---- MODULE Spec2Model ----
\* The Maker of the coinswap protocol: per-connection message handling, the
\* connection-state store and its two watchdogs, the recovery routine, the
\* contract cache of verify_and_sign_contract_tx, the acceptance loop gated
\* by the node-liveness pinger, and the supervisor from its bootstrap to its
\* return.
\*
\* One module, several specifications over the same variables:
\*   Spec          handle_client / handle_message
\*   SpecBehavior  the same at a Maker of any MakerBehavior, with the Taker's
\*                 bad-maker list; SpecBehaviorFair schedules the Taker fairly
\*   SpecIdle      handle_client / handle_message + check_for_idle_states
\*   SpecObserver  handle_client / handle_message + check_for_broadcasted_contracts
\*   SpecRecovery  recover_from_swap against a node that mines blocks
\*   SpecRecoveryFair  the same next to a shutdown request, the recovery
\*                     thread scheduled fairly
\*   SpecAccept    start_maker_server's acceptance loop + check_connection_with_core
\*   SpecSupervisor  start_maker_server: fidelity bond, directory Post, thread
\*                   spawns, the loops and the exit; SpecSupervisorFair
\*                   schedules every loop fairly
\*   SpecCache     verify_and_sign_contract_tx of concurrent handlers
\*   SpecPof       verify_proof_of_funding on one ProofOfFunding message
\*   SpecWatchdogs  handle_client / handle_message + both watchdogs
\*   SpecCadence   SpecIdle with a peer that is never silent for more than 60 s
\*   SpecRead      handle_client / handle_message with read errors
\*   SpecLocks     the store mutex and the wallet lock as the Contract
\*                 Observer, a recovery thread and a handler take them
EXTENDS Integers, Sequences, FiniteSets, TLC

\* ---------------------------------------------------------------- bounds

\* Peer IPs that may connect.
Peers == {"ip1", "ip2"}

\* Most swapcoin pairs one ProofOfFunding sets up.
MaxCoins == 1
\* The clock stops advancing here.
MaxNow == 61

\* The clock advances by one of these numbers of seconds.
TickSteps == {60, 61}

\* The peer that keeps the cadence: it is never silent for more than
\* IDLE_SECS while it has an entry in the store.
RegularPeer == "ip1"

\* The clock of the cadence runs advances by one of these numbers of seconds,
\* and shows one of these times.
CadenceSteps == {1, 60}

CadenceTimes == {0, 60, 61}

\* Most connections accepted in one behaviour.
MaxConnections == 2

\* Most contract transactions broadcast in one behaviour.
MaxBroadcasts == 1

\* Most swapcoins of a kind in one recovery payload.
MaxRecCoins == 2

\* The largest relative timelock of an outgoing swapcoin, in blocks.
MaxTimelock == 2

\* The node's confirmation counts stop growing here.
MaxConf == 3

\* Most contract transactions in one ReqContractSigsForSender.
MaxTxs == 2

\* Most verify_and_sign_contract_tx calls of one handler thread.
MaxCalls == 1

\* The handler threads that validate concurrently, the funding outpoints and
\* the contract scriptPubKeys.
Handlers == {"h1", "h2"}

Outpoints == {"o1", "o2"}

Spks == {"s1", "s2"}

\* Most recovery threads spawned in one behaviour.
MaxThreads == 2

\* Most funding entries of one ProofOfFunding (confirmed_funding_txes).
MaxFundingTxs == 2

\* The most confirmations get_tx_out reports for a funding output.
MaxFundingConfs == 2

\* The relative locktimes read from contract redeemscripts, the next_locktime
\* values of a ProofOfFunding (differences of 48, 47 and below zero), and the
\* hash values of the hashlocks.
HopLocktimes == {48, 49}

NextLocktimes == {1, 50}

Hashvalues == {"hv1", "hv2"}

\* ------------------------------------------------------ program constants

\* The idle threshold of check_for_idle_states, in seconds.
IDLE_SECS == 60

\* The funding-confirmation depth and the least distance, in blocks, between
\* the locktime of a hop and of the next one.
REQUIRED_CONFIRMS == 1

MIN_CONTRACT_REACTION_TIME == 48

\* ------------------------------------------------------------- data model

\* The enum ExpectedMessage, in declaration order.
ExpectedMessage ==
    << "TakerHello", "NewlyConnectedTaker", "ReqContractSigsForSender",
       "ProofOfFunding", "ProofOfFundingORContractSigsForRecvrAndSender",
       "ReqContractSigsForRecvr", "HashPreimage", "PrivateKeyHandover" >>

\* The kinds of message a Taker can send.
MessageKinds ==
    { "TakerHello", "NewlyConnectedTaker", "ReqContractSigsForSender",
      "ProofOfFunding", "ContractSigsForRecvrAndSender",
      "ReqContractSigsForRecvr", "HashPreimage", "PrivateKeyHandover" }

\* A mutant of DefaultConnectionState: the enum's #[default] put one variant
\* too low.
DefaultConnectionStateWrongDefault ==
    [ allowed_message |-> ExpectedMessage[2],
      incoming_swapcoins |-> << >>,
      outgoing_swapcoins |-> << >>,
      pending_funding_txes |-> << >> ]

\* ConnectionState::default(): #[default] TakerHello and empty vectors.
DefaultConnectionState ==
    [ allowed_message |-> ExpectedMessage[1],
      incoming_swapcoins |-> << >>,
      outgoing_swapcoins |-> << >>,
      pending_funding_txes |-> << >> ]

\* An incoming swapcoin of peer p: its multisig redeemscript stands for the
\* swapcoin and for its contract transaction.
IncomingSwapCoin(p, i, signed) ==
    [ redeemscript |-> << "in", p, i >>, signed |-> signed ]

\* An outgoing swapcoin of peer p with its relative timelock in blocks.
OutgoingSwapCoin(p, i, signed) ==
    [ redeemscript |-> << "out", p, i >>, signed |-> signed, timelock |-> i ]

VARIABLES
    \* handle_client: per peer IP, the connection's status, its local
    \* ConnectionState, and (history) the kinds of the messages accepted on it.
    conn,
    \* The number of connections accepted so far.
    connections,
    \* maker.connection_state: IP -> (ConnectionState, last_seen).
    connection_state,
    \* Instant::now(), in seconds.
    now,
    \* maker.shutdown.
    shutdown,
    \* check_for_idle_states' bad_ip, which lives across passes.
    bad_ip,
    \* check_for_broadcasted_contracts' failed_swap_ip, which lives across passes.
    failed_swap_ip,
    \* Contract transactions the node reports (mempool or chain).
    node_txs,
    \* The recovery threads spawned so far, each with its payload.
    recovery_threads,
    \* Whether each watchdog thread is still running.
    watchdog_alive,
    \* History: what the last step did (a message handled, a watchdog pass).
    event,
    \* recover_from_swap: where the routine is, and the index of its loop.
    rec_pc, rec_i,
    \* recover_from_swap's arguments.
    outgoings, incomings,
    \* The swapcoins in the wallet, by multisig redeemscript.
    wallet_incoming, wallet_outgoing,
    \* The node: transaction -> confirmations (0 in mempool), for the
    \* transactions it knows.
    node_conf,
    \* recover_from_swap's timelock_boardcasted.
    timelock_boardcasted,
    \* History: what recover_from_swap sent to the node and removed from the wallet.
    rec_log,
    \* start_maker_server's accepting_clients flag.
    accepting_clients,
    \* Whether the node answers RPC calls.
    node_up,
    \* check_connection_with_core's rpc_ping_success and position.
    rpc_ping_success, pinger_pc,
    \* The acceptance loop's position, and the connections waiting in the
    \* listener's queue.
    accept_pc, backlog,
    \* History: for each handler thread spawned by the acceptance loop, the
    \* flag at the moment of the spawn and the flag the loop had read.
    spawned_handlers,
    \* start_maker_server's position, from network_bootstrap to its return.
    sup_pc,
    \* maker.highest_fidelity_proof: empty, or the proof of a bond the wallet
    \* already held, or the proof of a bond created in the bootstrap.
    highest_fidelity_proof,
    \* History: the wallet operations start_maker_server completed after its
    \* acceptance loop.
    exit_log,
    \* maker.behavior, fixed when the Maker is built.
    behavior,
    \* The Taker's list of bad makers, by advertised address.
    bad_makers,
    \* Per thread that takes locks, the operation it is at.
    lock_pc,
    \* The thread that holds maker.connection_state's mutex, or "free".
    store_holder,
    \* maker.wallet's RwLock: per thread the read guards it holds, the thread
    \* that holds the write guard or "none", and per thread the guard it is
    \* blocked waiting for or "none".
    wallet_read_guards, wallet_write_guard, wallet_waiting,
    \* Whether the platform's RwLock makes a read request wait behind a
    \* waiting writer (std leaves the priority policy to the platform).
    writer_priority,
    \* wallet.store.prevout_to_contract_map, the contract cache.
    prevout_to_contract_map,
    \* verify_and_sign_contract_tx: per handler thread, the call in progress.
    vs_call,
    \* History: every (outpoint, scriptPubKey) the cache ever held.
    cache_log,
    \* verify_proof_of_funding: the call in progress and its result.
    pof_call

handlerVars == << conn, connection_state >>

watchdogVars == << bad_ip, failed_swap_ip, node_txs, recovery_threads,
                   watchdog_alive >>

recoveryVars == << rec_pc, rec_i, outgoings, incomings, wallet_incoming,
                   wallet_outgoing, node_conf, timelock_boardcasted, rec_log >>

supVars == << sup_pc, highest_fidelity_proof, exit_log >>

fixtureVars == << behavior, bad_makers >>

lockVars == << lock_pc, store_holder, wallet_read_guards, wallet_write_guard,
               wallet_waiting, writer_priority >>

acceptVars == << accepting_clients, node_up, rpc_ping_success, pinger_pc,
                 accept_pc, backlog, spawned_handlers, supVars, fixtureVars, lockVars >>

cacheVars == << prevout_to_contract_map, vs_call, cache_log, pof_call >>

vars == << handlerVars, watchdogVars, recoveryVars, acceptVars, cacheVars,
           now, shutdown, event, connections >>

\* The last step was none that the history records.
NoEvent == [kind |-> "none"]

\* ------------------------------------------------- the Protocol Handler

\* The position of an ExpectedMessage variant in the enum.
StateIndex(m) ==
    CHOOSE i \in 1..Len(ExpectedMessage) : ExpectedMessage[i] = m

\* The message kinds a state allows: the branching state allows two kinds,
\* every other state the kind of its own name.
AllowedKinds(m) ==
    IF m = "ProofOfFundingORContractSigsForRecvrAndSender"
    THEN {"ProofOfFunding", "ContractSigsForRecvrAndSender"}
    ELSE {m}

\* The swapcoins a ProofOfFunding sets up for k funding entries: k incoming and
\* k outgoing, paired by index, not yet signed by the counterparty.
SwapcoinsAfterProofOfFunding(st, p, k) ==
    [ st EXCEPT !.incoming_swapcoins = [i \in 1..k |-> IncomingSwapCoin(p, i, FALSE)],
                !.outgoing_swapcoins = [i \in 1..k |-> OutgoingSwapCoin(p, i, FALSE)] ]

\* ContractSigsForRecvrAndSender brings the counterparty's contract signatures.
SwapcoinsAfterContractSigs(st) ==
    [ st EXCEPT !.incoming_swapcoins =
                    [i \in DOMAIN st.incoming_swapcoins |->
                        [st.incoming_swapcoins[i] EXCEPT !.signed = TRUE]],
                !.outgoing_swapcoins =
                    [i \in DOMAIN st.outgoing_swapcoins |->
                        [st.outgoing_swapcoins[i] EXCEPT !.signed = TRUE]] ]

\* handle_message on a message of an allowed kind: the ConnectionState after it.
\* expected_next_message moves to the next variant; the terminal leg
\* (PrivateKeyHandover) hands the swapcoins over to the wallet.
HandleAccepted(st, kind, p, k) ==
    LET i == StateIndex(st.allowed_message)
        moved == IF i < Len(ExpectedMessage)
                 THEN [st EXCEPT !.allowed_message = ExpectedMessage[i + 1]]
                 ELSE [st EXCEPT !.incoming_swapcoins = << >>,
                                 !.outgoing_swapcoins = << >>]
    IN  CASE kind = "ProofOfFunding" -> SwapcoinsAfterProofOfFunding(moved, p, k)
          [] kind = "ContractSigsForRecvrAndSender" -> SwapcoinsAfterContractSigs(moved)
          [] OTHER -> moved

\* Whether handle_message accepts a message of this kind on this connection.
HandleMessageOk(c, kind) ==
    /\ c.status = "open"
    /\ kind \in AllowedKinds(c.state.allowed_message)

\* MakerBehavior: Normal, and the behaviours that close the connection at a
\* step of the protocol.
MakerBehaviors ==
    { "Normal", "CloseAtReqContractSigsForSender", "CloseAtProofOfFunding",
      "CloseAtContractSigsForRecvrAndSender", "CloseAtContractSigsForRecvr",
      "CloseAtHashPreimage" }

\* handle_message's branch points: the behaviour b makes the handler of a
\* message of this kind return MakerError::SpecialBehaviour.
ClosesAt(b, kind) ==
    \/ b = "CloseAtReqContractSigsForSender" /\ kind = "ReqContractSigsForSender"
    \/ b = "CloseAtProofOfFunding" /\ kind = "ProofOfFunding"
    \/ b = "CloseAtContractSigsForRecvrAndSender"
           /\ kind = "ContractSigsForRecvrAndSender"
    \/ b = "CloseAtContractSigsForRecvr" /\ kind = "ReqContractSigsForRecvr"
    \/ b = "CloseAtHashPreimage" /\ kind = "HashPreimage"

\* handle_message's answer: Ok, an error of the kind SpecialBehaviour, or any
\* other error (a kind the state does not allow, or a message of an allowed
\* kind that fails a check of its handler: `valid` is false).
HandleMessageResult(c, kind, b, valid) ==
    IF ~HandleMessageOk(c, kind) THEN "err"
    ELSE IF ClosesAt(b, kind) THEN "special"
    ELSE IF ~valid THEN "err"
    ELSE "ok"

\* A mutant of ShutdownAfterError: every error arm stores true.
ShutdownAfterAnyError(result, flag) ==
    TRUE

\* handle_client's Err arm, `MakerError::SpecialBehaviour(sp) =>
\* maker.shutdown.store(true, Relaxed)`: the flag after an error.
ShutdownAfterError(result, flag) ==
    flag \/ result = "special"

\* A mutant of StatusAfterError: the error arm falls through to the next read.
StatusAfterErrorKeepsOpen(status) ==
    status

\* handle_client's Err arm: `return Err(err)` ends the loop and the thread, and
\* the stream is dropped with it.
StatusAfterError(status) ==
    "closed"

\* The store with ip's entry set to (st, now).
StoreInsert(store, ip, st, t) ==
    [q \in DOMAIN store \cup {ip} |->
        IF q = ip THEN [state |-> st, last_seen |-> t] ELSE store[q]]

StoreRemoveOrRestore(store, S) ==
    [q \in (DOMAIN store \ S) \cup (S \ DOMAIN store) |->
        IF q \in DOMAIN store THEN store[q]
        ELSE [state |-> DefaultConnectionState, last_seen |-> 0]]

\* The store without the entries of the IPs in S.
StoreRemove(store, S) ==
    [q \in DOMAIN store \ S |-> store[q]]

\* start_maker_server accepts a connection and handle_client starts on it with
\* a default ConnectionState.
ClientConnects(p) ==
    /\ ~shutdown
    /\ conn[p].status \in {"none", "closed"}
    /\ connections < MaxConnections
    /\ connections' = connections + 1
    /\ conn' = [conn EXCEPT ![p] = [status |-> "open",
                                    state |-> DefaultConnectionState,
                                    accepted |-> << >>]]
    /\ event' = NoEvent
    /\ UNCHANGED << connection_state, watchdogVars, recoveryVars, acceptVars,
                    cacheVars, now, shutdown >>

\* The connection after handle_client's loop has ended: the thread is gone and
\* its local ConnectionState with it.
Ended(status) ==
    [status |-> status, state |-> DefaultConnectionState, accepted |-> << >>]

\* What a handled message leaves in the history: the ConnectionState that
\* handle_message was given and the one it left.
MessageEvent(p, kind, before, after, result, status) ==
    [ kind |-> "message", ip |-> p, message |-> kind, before |-> before,
      after |-> after, result |-> result, status |-> status ]

\* One turn of handle_client's loop on a decoded message of the given kind.
\* `record` says whether the history keeps the message.
HandleClientMessage(p, kind, k, record) ==
    /\ ~shutdown
    /\ conn[p].status \in {"open", "done"}
    /\ \E valid \in BOOLEAN :
       LET result == HandleMessageResult(conn[p], kind, behavior, valid)
       IN  IF result = "ok"
           THEN LET st == HandleAccepted(conn[p].state, kind, p, k)
                    last == kind = "PrivateKeyHandover"
                IN  /\ conn' = [conn EXCEPT ![p] =
                                    [status |-> IF last THEN "done" ELSE "open",
                                     state |-> st,
                                     accepted |-> Append(conn[p].accepted, kind)]]
                    /\ connection_state' =
                           IF last THEN StoreRemove(connection_state, {p})
                           ELSE StoreInsert(connection_state, p, st, now)
                    /\ event' = IF record
                                THEN MessageEvent(p, kind, conn[p].state, st, "ok",
                                                  conn'[p].status)
                                ELSE NoEvent
                    /\ UNCHANGED shutdown
           ELSE /\ conn' = [conn EXCEPT ![p] =
                                Ended(StatusAfterError(conn[p].status))]
                /\ connection_state' = connection_state
                /\ shutdown' = ShutdownAfterError(result, shutdown)
                /\ event' = IF record
                            THEN MessageEvent(p, kind, conn[p].state,
                                              conn[p].state, result,
                                              conn'[p].status)
                            ELSE NoEvent
    /\ UNCHANGED << watchdogVars, recoveryVars, acceptVars, cacheVars, now,
                    connections >>

\* serde_cbor::from_slice(..)? on bytes that are no message: handle_client
\* returns the error before handle_message is called.
DecodeError(p, record) ==
    /\ ~shutdown
    /\ conn[p].status \in {"open", "done"}
    /\ conn' = [conn EXCEPT ![p] = Ended("closed")]
    /\ event' = IF record
                THEN MessageEvent(p, "Malformed", conn[p].state, conn[p].state,
                                  "err", "closed")
                ELSE NoEvent
    /\ UNCHANGED << connection_state, watchdogVars, recoveryVars, acceptVars,
                    cacheVars, now, shutdown, connections >>

\* The errors read_message can answer.
ReadErrors == {"UnexpectedEof", "OtherIo", "NotIo"}

\* A mutant of AfterReadError: only the keep-alive EOF reads again.
AfterReadErrorEofOnly(error) ==
    IF error = "UnexpectedEof" THEN "continue" ELSE "decode"

\* `if let NetError::IO(e) = e { .. continue .. }`: an I/O error, EOF or not,
\* goes back to the head of the loop; any other error falls through to the
\* decoding with no bytes read.
AfterReadError(error) ==
    IF error \in {"UnexpectedEof", "OtherIo"} THEN "continue" ELSE "decode"

\* One turn of handle_client's loop in which read_message answers an error.
\* Decoding no bytes fails, and handle_client returns that error.
ReadError(p, error, record) ==
    /\ ~shutdown
    /\ conn[p].status \in {"open", "done"}
    /\ IF AfterReadError(error) = "continue"
       THEN UNCHANGED conn
       ELSE conn' = [conn EXCEPT ![p] = Ended("closed")]
    /\ event' = IF record
                THEN [kind |-> "read", ip |-> p, error |-> error,
                      status |-> conn'[p].status]
                ELSE NoEvent
    /\ UNCHANGED << connection_state, watchdogVars, recoveryVars, acceptVars,
                    cacheVars, now, shutdown, connections >>

\* The address the Maker advertises through the directory.
MakerAddress == "maker:6102"

\* The Taker at peer p: its ProofOfFunding, sent when the Maker expected it,
\* was answered by a closed connection, and the Taker puts the Maker's
\* address on its list of bad makers.
TakerMarksBadMaker(p) ==
    /\ event.kind = "message" /\ event.ip = p
    /\ event.message = "ProofOfFunding"
    /\ event.before.allowed_message = "ProofOfFunding"
    /\ event.status = "closed"
    /\ \A i \in DOMAIN bad_makers : bad_makers[i] # MakerAddress
    /\ bad_makers' = Append(bad_makers, MakerAddress)
    /\ UNCHANGED << behavior, lockVars, accepting_clients, node_up,
                    rpc_ping_success, pinger_pc, accept_pc, backlog,
                    spawned_handlers, supVars, handlerVars, watchdogVars,
                    recoveryVars, cacheVars, now, shutdown, event,
                    connections >>

\* Time passes.
Tick(d) ==
    /\ now + d <= MaxNow
    /\ now' = now + d
    /\ event' = NoEvent
    /\ UNCHANGED << handlerVars, watchdogVars, recoveryVars, acceptVars,
                    cacheVars, shutdown, connections >>

\* ------------------------------------------------------- the watchdogs

Min(a, b) == IF a <= b THEN a ELSE b

\* no_response_since: current_time.saturating_duration_since(last_connected_time).
NoResponseSince(t, last_seen) ==
    IF t >= last_seen THEN t - last_seen ELSE 0

\* A mutant of IsIdle: a peer silent for exactly the timeout is idle.
IsIdleAtSixty(t, entry) ==
    NoResponseSince(t, entry.last_seen) >= IDLE_SECS

\* `no_response_since > Duration::from_secs(60)`.
IsIdle(t, entry) ==
    NoResponseSince(t, entry.last_seen) > IDLE_SECS

\* The pairs that `outgoing_swapcoins.iter().zip(incoming_swapcoins.iter())` yields.
ZipIndices(st) ==
    1..Min(Len(st.outgoing_swapcoins), Len(st.incoming_swapcoins))

\* One element of recover_from_swap's outgoings: ((multisig redeemscript,
\* contract tx), (timelock, timelock-spend tx)). The two transactions are
\* functions of the swapcoin, which its redeemscript names.
OutgoingEntry(og) ==
    [ redeemscript |-> og.redeemscript, timelock |-> og.timelock ]

\* One element of recover_from_swap's incomings: (multisig redeemscript, contract tx).
IncomingEntry(ic) ==
    [ redeemscript |-> ic.redeemscript ]

\* Whether the Idle Detector's payload loop gets through: get_timelock(),
\* get_fully_signed_contract_tx(), get_next_internal_addresses() and
\* create_timelock_spend() are all followed by `?`.
IdlePayloadOk(st, wallet_ok) ==
    \A i \in ZipIndices(st) :
        /\ wallet_ok
        /\ st.outgoing_swapcoins[i].signed
        /\ st.incoming_swapcoins[i].signed

\* The payload of the Idle Detector for a state whose loop gets through.
IdleOutgoings(st) ==
    [i \in ZipIndices(st) |-> OutgoingEntry(st.outgoing_swapcoins[i])]

IdleIncomings(st) ==
    [i \in ZipIndices(st) |-> IncomingEntry(st.incoming_swapcoins[i])]

\* The elements of a sequence that satisfy a test, in order.
RECURSIVE Filter(_, _, _)
Filter(seq, Keep(_), i) ==
    IF i > Len(seq) THEN << >>
    ELSE (IF Keep(seq[i]) THEN << seq[i] >> ELSE << >>) \o Filter(seq, Keep, i + 1)

IsSigned(coin) == coin.signed

\* The payload of the Contract Observer: a swapcoin whose
\* get_fully_signed_contract_tx() fails is left out with a warning.
ObserverOutgoings(st) ==
    LET zipped == [i \in ZipIndices(st) |-> st.outgoing_swapcoins[i]]
        kept == Filter(zipped, IsSigned, 1)
    IN  [i \in DOMAIN kept |-> OutgoingEntry(kept[i])]

\* A mutant of ObserverIncomings: the incoming entry is pushed from og_sc.
ObserverIncomingsFromOutgoing(st) ==
    LET zipped == [i \in ZipIndices(st) |-> st.outgoing_swapcoins[i]]
        kept == Filter(zipped, IsSigned, 1)
    IN  [i \in DOMAIN kept |-> IncomingEntry(kept[i])]

ObserverIncomings(st) ==
    LET zipped == [i \in ZipIndices(st) |-> st.incoming_swapcoins[i]]
        kept == Filter(zipped, IsSigned, 1)
    IN  [i \in DOMAIN kept |-> IncomingEntry(kept[i])]

\* A recovery thread, spawned by a watchdog for a peer with a payload.
RecoveryThread(by, ip, outs, ins) ==
    [ by |-> by, ip |-> ip, outgoings |-> outs, incomings |-> ins ]

\* The store with the entries of the IPs in S reset:
\* `*state = ConnectionState::default()`.
StoreReset(store, S) ==
    [q \in DOMAIN store |->
        IF q \in S THEN [store[q] EXCEPT !.state = DefaultConnectionState]
        ELSE store[q]]

\* One pass of check_for_idle_states' loop, under the store's lock. The peers
\* are met in the HashMap's order, any order; the first idle peer ends the
\* iteration (`break`). An Err leaves the function, and the thread that ran it
\* sets maker.shutdown; the history notes which call failed (a swapcoin
\* accessor on a swapcoin that is not fully signed, a wallet call, the spawn).
CheckForIdleStatesPass ==
    /\ ~shutdown
    /\ watchdog_alive.idle
    /\ Len(recovery_threads) < MaxThreads
    /\ LET idle == {ip \in DOMAIN connection_state : IsIdle(now, connection_state[ip])}
           Pass(after, spawned, result, failed) ==
               [ kind |-> "idle_pass", at |-> now, before |-> connection_state,
                 after |-> after, spawned |-> spawned, result |-> result,
                 reported |-> {}, failed |-> failed ]
       IN  IF idle = {}
           THEN /\ connection_state' = StoreRemove(connection_state, bad_ip)
                /\ event' = Pass(connection_state', {}, "ok", "none")
                /\ UNCHANGED << bad_ip, recovery_threads, watchdog_alive, shutdown >>
           ELSE \E ip \in idle, wallet_ok \in BOOLEAN, spawn_ok \in BOOLEAN :
                LET st == connection_state[ip].state
                    thread == RecoveryThread("idle", ip, IdleOutgoings(st), IdleIncomings(st))
                IN  IF ~IdlePayloadOk(st, wallet_ok)
                    THEN /\ watchdog_alive' = [watchdog_alive EXCEPT !.idle = FALSE]
                         /\ shutdown' = TRUE
                         /\ event' = Pass(connection_state, {}, "err",
                                          IF IdlePayloadOk(st, TRUE)
                                          THEN "wallet" ELSE "swapcoin")
                         /\ UNCHANGED << connection_state, bad_ip, recovery_threads >>
                    ELSE IF ~spawn_ok
                    THEN /\ bad_ip' = bad_ip \cup {ip}
                         /\ watchdog_alive' = [watchdog_alive EXCEPT !.idle = FALSE]
                         /\ shutdown' = TRUE
                         /\ event' = Pass(connection_state, {}, "err", "spawn")
                         /\ UNCHANGED << connection_state, recovery_threads >>
                    ELSE /\ bad_ip' = bad_ip \cup {ip}
                         /\ recovery_threads' = Append(recovery_threads, thread)
                         /\ connection_state' =
                                StoreRemove(StoreReset(connection_state, {ip}), bad_ip')
                         /\ event' = Pass(connection_state', {thread}, "ok", "none")
                         /\ UNCHANGED << watchdog_alive, shutdown >>
    /\ UNCHANGED << conn, failed_swap_ip, node_txs, recoveryVars, acceptVars,
                    cacheVars, now, connections >>

\* txids_to_watch: the contract transactions of a state, incoming then outgoing.
TxidsToWatch(st) ==
    {st.incoming_swapcoins[i].redeemscript : i \in DOMAIN st.incoming_swapcoins}
        \cup {st.outgoing_swapcoins[i].redeemscript : i \in DOMAIN st.outgoing_swapcoins}

\* One pass of check_for_broadcasted_contracts' loop, under the store's lock.
\* `reported` are the peers for which get_raw_transaction_info answered Ok for
\* some watched txid (an RPC failure answers Err for a visible transaction).
\* When a `?` fails at peer `failing`, the peers met before it (`met`) have
\* been handled and the function returns before any entry is removed.
CheckForBroadcastedContractsPass ==
    /\ ~shutdown
    /\ watchdog_alive.observer
    /\ LET visible == {ip \in DOMAIN connection_state :
                          TxidsToWatch(connection_state[ip].state) \cap node_txs # {}}
           Thread(ip) ==
               RecoveryThread("observer", ip,
                              ObserverOutgoings(connection_state[ip].state),
                              ObserverIncomings(connection_state[ip].state))
           Pass(rep, after, spawned, result) ==
               [ kind |-> "observer_pass", at |-> now, before |-> connection_state,
                 after |-> after, spawned |-> spawned, result |-> result,
                 reported |-> rep ]
           \* The threads of the peers in S, one after the other.
           RECURSIVE Threads(_)
           Threads(S) ==
               IF S = {} THEN << >>
               ELSE LET ip == CHOOSE x \in S : TRUE
                    IN  << Thread(ip) >> \o Threads(S \ {ip})
           Spawn(S) == recovery_threads \o Threads(S)
       IN  \E reported \in SUBSET visible :
           /\ Len(recovery_threads) + Cardinality(reported) <= MaxThreads
           /\ \/ /\ failed_swap_ip' = failed_swap_ip \cup reported
                 /\ recovery_threads' = Spawn(reported)
                 /\ connection_state' =
                        StoreRemove(StoreReset(connection_state, reported), failed_swap_ip')
                 /\ event' = Pass(reported, connection_state',
                                      {Thread(ip) : ip \in reported}, "ok")
                 /\ UNCHANGED << watchdog_alive, shutdown >>
              \/ \E failing \in reported, spawn_failed \in BOOLEAN :
                 \E met \in SUBSET (reported \ {failing}) :
                 /\ spawn_failed \/ ZipIndices(connection_state[failing].state) # {}
                 /\ failed_swap_ip' = failed_swap_ip \cup met
                        \cup (IF spawn_failed THEN {failing} ELSE {})
                 /\ recovery_threads' = Spawn(met)
                 /\ connection_state' = StoreReset(connection_state, met)
                 /\ event' = Pass(reported, connection_state',
                                      {Thread(ip) : ip \in met}, "err")
                 /\ watchdog_alive' = [watchdog_alive EXCEPT !.observer = FALSE]
                 /\ shutdown' = TRUE
    /\ UNCHANGED << conn, bad_ip, node_txs, recoveryVars, acceptVars,
                    cacheVars, now, connections >>

\* Some party broadcasts a contract transaction of a swap in flight.
ContractBroadcast(p, txid) ==
    /\ txid \in TxidsToWatch(conn[p].state)
    /\ txid \notin node_txs
    /\ Cardinality(node_txs) < MaxBroadcasts
    /\ node_txs' = node_txs \cup {txid}
    /\ event' = NoEvent
    /\ UNCHANGED << handlerVars, bad_ip, failed_swap_ip, recovery_threads,
                    watchdog_alive, recoveryVars, acceptVars, cacheVars, now,
                    shutdown, connections >>

\* ------------------------------------------------- the Recovery Engine

\* The contract transaction and the timelock-spend transaction of a swapcoin.
ContractTx(redeemscript) == << "contract", redeemscript >>

TimelockSpendTx(redeemscript) == << "spend", redeemscript >>

\* The node does not know the transaction.
Unknown == -1

\* get_raw_transaction_info(txid).is_ok(): the call went through and the node
\* knows the transaction.
NodeReports(rpc_ok, tx) ==
    rpc_ok /\ node_conf[tx] # Unknown

\* send_raw_transaction of a contract transaction: the node takes a
\* transaction it does not know yet.
NodeTakesContract(rpc_ok, tx) ==
    rpc_ok /\ node_conf[tx] = Unknown

\* send_raw_transaction of a timelock-spend: the node takes it when it is new
\* and the contract output is at least `timelock` blocks deep.
NodeTakesSpend(rpc_ok, og) ==
    /\ rpc_ok
    /\ node_conf[TimelockSpendTx(og.redeemscript)] = Unknown
    /\ node_conf[ContractTx(og.redeemscript)] >= og.timelock

\* A mutant of MaturityReached: any confirmed contract counts as mature.
MaturityReachedOnFirstConfirmation(confirmation, timelock) ==
    confirmation >= 1

\* `if confirmation > (*timelock as u32)`.
MaturityReached(confirmation, timelock) ==
    confirmation > timelock

\* A mutant of OutgoingsToRemove: the loop starts one element late.
OutgoingsToRemoveButFirst(outs) ==
    {outs[i].redeemscript : i \in 2..Len(outs)}

\* `for ((outgoing_reedemscript, _), _) in outgoings`: the swapcoins the final
\* loop removes from the wallet.
OutgoingsToRemove(outs) ==
    {outs[i].redeemscript : i \in 1..Len(outs)}

\* What rec_log keeps of a timelock-spend handed to send_raw_transaction, of
\* a removal from the wallet and of a save.
RecLog(op, tx, conf, timelock) ==
    [ op |-> op, tx |-> tx, conf |-> conf, timelock |-> timelock ]

\* recover_from_swap has returned or panicked.
RecoveryOver ==
    rec_pc \in {"done", "failed", "panicked"}

\* The transactions whose confirmations the engine reads: the contracts of
\* the outgoing swapcoins. Of the others it asks only whether the node knows
\* them.
ConfirmationsRead(tx) ==
    \E i \in 1..Len(outgoings) : tx = ContractTx(outgoings[i].redeemscript)

\* What `event` keeps of the contract transaction the first two loops handled
\* last: whether get_raw_transaction_info answered Ok, whether the engine
\* called send_raw_transaction, and whether that call succeeded.
RecContract(tx, reported, sent, ok) ==
    [ kind |-> "contract", tx |-> tx, reported |-> reported, sent |-> sent,
      ok |-> ok ]

\* A mutant of SendsContract: the contract is sent whatever the node reports.
SendsContractAlways(reported) ==
    TRUE

\* `if ..get_raw_transaction_info(..).is_ok() { log } else { send }`: the
\* contract is sent only when the node does not report it.
SendsContract(reported) ==
    ~reported

\* One turn of `for (incoming_reedemscript, tx) in incomings`: skip or send the
\* contract (a failed send returns the error), then remove the incoming
\* swapcoin (`expect` panics when the wallet has none).
RecoverIncoming ==
    /\ rec_pc = "incomings"
    /\ rec_i <= Len(incomings)
    /\ LET rs == incomings[rec_i].redeemscript
           tx == ContractTx(rs)
       IN  \E info_ok \in BOOLEAN, send_ok \in BOOLEAN :
           LET reported == NodeReports(info_ok, tx)
               sends == SendsContract(reported)
               taken == NodeTakesContract(send_ok, tx)
               handled == RecContract(tx, reported, sends, ~sends \/ taken)
           IN  IF sends /\ ~taken
               THEN /\ rec_pc' = "failed"
                    /\ rec_log' = Append(rec_log, RecLog("contract", tx, 0, 0))
                    /\ event' = handled
                    /\ UNCHANGED << rec_i, wallet_incoming, node_conf >>
               ELSE /\ node_conf' = IF sends THEN [node_conf EXCEPT ![tx] = 0]
                                    ELSE node_conf
                    /\ event' = handled
                    /\ IF rs \in wallet_incoming
                       THEN /\ wallet_incoming' = wallet_incoming \ {rs}
                            /\ rec_log' = rec_log \o
                                   << RecLog("contract", tx, 0, 0),
                                      RecLog("remove_incoming", rs, 0, 0) >>
                            /\ rec_i' = rec_i + 1
                            /\ rec_pc' = rec_pc
                       ELSE /\ rec_pc' = "panicked"
                            /\ rec_log' = Append(rec_log, RecLog("contract", tx, 0, 0))
                            /\ UNCHANGED << rec_i, wallet_incoming >>
    /\ UNCHANGED << outgoings, incomings, wallet_outgoing, timelock_boardcasted,
                    handlerVars, watchdogVars, acceptVars, cacheVars, now,
                    shutdown, connections >>

\* `maker.wallet.read()?.save_to_disk()?` after the incomings.
RecoverSaveToDisk ==
    /\ rec_pc = "incomings"
    /\ rec_i > Len(incomings)
    /\ rec_pc' = "outgoings"
    /\ rec_i' = 1
    /\ rec_log' = Append(rec_log, RecLog("save", << >>, 0, 0))
    /\ UNCHANGED << outgoings, incomings, wallet_incoming, wallet_outgoing,
                    node_conf, timelock_boardcasted, handlerVars, watchdogVars,
                    acceptVars, cacheVars, now, shutdown, event, connections >>

\* One turn of `for ((_, tx), _) in outgoings.iter()`: skip or send the contract;
\* after the last one the maturity loop starts.
RecoverOutgoing ==
    /\ rec_pc = "outgoings"
    /\ IF rec_i > Len(outgoings)
       THEN /\ rec_pc' = "maturity"
            /\ rec_i' = 1
            /\ UNCHANGED << node_conf, rec_log, event >>
       ELSE LET tx == ContractTx(outgoings[rec_i].redeemscript)
            IN  \E info_ok \in BOOLEAN, send_ok \in BOOLEAN :
                LET reported == NodeReports(info_ok, tx)
                    sends == SendsContract(reported)
                    taken == NodeTakesContract(send_ok, tx)
                    handled == RecContract(tx, reported, sends, ~sends \/ taken)
                IN  /\ rec_log' = Append(rec_log, RecLog("contract", tx, 0, 0))
                    /\ event' = handled
                    /\ IF sends /\ ~taken
                       THEN /\ rec_pc' = "failed"
                            /\ UNCHANGED << rec_i, node_conf >>
                       ELSE /\ node_conf' = IF sends THEN [node_conf EXCEPT ![tx] = 0]
                                            ELSE node_conf
                            /\ rec_i' = rec_i + 1
                            /\ rec_pc' = rec_pc
    /\ UNCHANGED << outgoings, incomings, wallet_incoming, wallet_outgoing,
                    timelock_boardcasted, handlerVars, watchdogVars, acceptVars,
                    cacheVars, now, shutdown, connections >>

\* Whether timelock_boardcasted.contains(&timelocked_tx).
AlreadyBroadcast(tx) ==
    \E i \in 1..Len(timelock_boardcasted) : timelock_boardcasted[i] = tx

\* What `event` keeps of the maturity loop's last turn: the timelock-spend,
\* whether it was in timelock_boardcasted, whether the node reported the
\* contract and with how many confirmations, and whether the spend was handed
\* to send_raw_transaction and taken.
RecMaturity(tx, swept, reported, conf, timelock, sent, ok) ==
    [ kind |-> "maturity", tx |-> tx, swept |-> swept, reported |-> reported,
      conf |-> conf, timelock |-> timelock, sent |-> sent, ok |-> ok ]

\* One turn of the maturity loop's `for` over the outgoings: a timelock-spend
\* not yet sent is sent when the node reports its contract confirmed past the
\* timelock; a failed send returns the error.
MaturityCheck ==
    /\ rec_pc = "maturity"
    /\ rec_i <= Len(outgoings)
    /\ LET og == outgoings[rec_i]
           contract == ContractTx(og.redeemscript)
           spend == TimelockSpendTx(og.redeemscript)
           confirmation == node_conf[contract]
       IN  \E info_ok \in BOOLEAN, send_ok \in BOOLEAN :
           LET swept == AlreadyBroadcast(spend)
               reported == NodeReports(info_ok, contract)
               sends == /\ ~swept
                        /\ reported
                        /\ confirmation >= 1
                        /\ MaturityReached(confirmation, og.timelock)
               taken == NodeTakesSpend(send_ok, og)
           IN  /\ event' = RecMaturity(spend, swept, reported,
                                       IF reported THEN confirmation ELSE Unknown,
                                       og.timelock, sends, sends /\ taken)
               /\ IF sends
                  THEN /\ rec_log' = Append(rec_log,
                                        RecLog("spend", spend, confirmation, og.timelock))
                       /\ IF taken
                          THEN /\ node_conf' = [node_conf EXCEPT ![spend] = 0]
                               /\ timelock_boardcasted' = Append(timelock_boardcasted, spend)
                               /\ rec_i' = rec_i + 1
                               /\ rec_pc' = rec_pc
                          ELSE /\ rec_pc' = "failed"
                               /\ UNCHANGED << node_conf, timelock_boardcasted, rec_i >>
                  ELSE /\ rec_i' = rec_i + 1
                       /\ UNCHANGED << rec_pc, rec_log, node_conf, timelock_boardcasted >>
    /\ UNCHANGED << outgoings, incomings, wallet_incoming, wallet_outgoing,
                    handlerVars, watchdogVars, acceptVars, cacheVars, now,
                    shutdown, connections >>

\* A mutant of AllSwept: one timelock-spend sent is taken for all of them.
AllSweptWhenAnySent(sent, outs) ==
    Len(sent) >= 1 \/ Len(outs) = 0

\* `if timelock_boardcasted.len() == outgoings.len()`.
AllSwept(sent, outs) ==
    Len(sent) = Len(outs)

\* The end of one pass of the maturity loop: when every timelock-spend has
\* been sent, the outgoing swapcoins are removed (`expect` panics when the
\* wallet misses one), the wallet is synced and saved and the routine returns
\* Ok (a build with the integration-test feature sets maker.shutdown first);
\* otherwise it sleeps. The wallet is shared with the other recovery threads:
\* by then one of them may have taken the last swapcoin of the payload out of
\* it (lost).
MaturityPassEnd ==
    /\ rec_pc = "maturity"
    /\ rec_i > Len(outgoings)
    /\ \E lost \in SUBSET {<< "out", Len(outgoings) >>} :
       LET to_remove == OutgoingsToRemove(outgoings)
           held == IF AllSwept(timelock_boardcasted, outgoings)
                   THEN wallet_outgoing \ lost ELSE wallet_outgoing
           Removed(og) == og.redeemscript \in to_remove \cap held
           kept == SelectSeq(outgoings, Removed)
           removals == [i \in 1..Len(kept) |->
                           RecLog("remove_outgoing", kept[i].redeemscript, 0, 0)]
       IN  IF AllSwept(timelock_boardcasted, outgoings)
           THEN /\ wallet_outgoing' = held \ to_remove
                /\ IF to_remove \subseteq held
                   THEN /\ rec_pc' = "done"
                        /\ rec_log' = rec_log \o removals
                                          \o << RecLog("sync_save", << >>, 0, 0) >>
                        /\ \E integration_test \in BOOLEAN :
                               shutdown' = (shutdown \/ integration_test)
                   ELSE /\ rec_pc' = "panicked"
                        /\ rec_log' = rec_log \o removals
                        /\ UNCHANGED shutdown
           ELSE /\ rec_pc' = "sleep"
                /\ UNCHANGED << wallet_outgoing, rec_log, shutdown >>
    /\ UNCHANGED << rec_i, outgoings, incomings, wallet_incoming, node_conf,
                    timelock_boardcasted, handlerVars, watchdogVars, acceptVars,
                    cacheVars, now, event, connections >>

\* std::thread::sleep(block_lookup_interval) is over: the next pass starts.
MaturityWake ==
    /\ rec_pc = "sleep"
    /\ rec_pc' = "maturity"
    /\ rec_i' = 1
    /\ UNCHANGED << outgoings, incomings, wallet_incoming, wallet_outgoing,
                    node_conf, timelock_boardcasted, rec_log, handlerVars,
                    watchdogVars, acceptVars, cacheVars, now, shutdown, event,
                    connections >>

\* The chain grows by a block: every transaction the node knows gets one more
\* confirmation.
MineBlock ==
    /\ ~RecoveryOver
    /\ \A tx \in DOMAIN node_conf : node_conf[tx] < MaxConf
    /\ \E tx \in DOMAIN node_conf : ConfirmationsRead(tx) /\ node_conf[tx] # Unknown
    /\ node_conf' = [tx \in DOMAIN node_conf |->
                        IF node_conf[tx] # Unknown /\ ConfirmationsRead(tx)
                        THEN node_conf[tx] + 1 ELSE node_conf[tx]]
    /\ UNCHANGED << rec_pc, rec_i, outgoings, incomings, wallet_incoming,
                    wallet_outgoing, timelock_boardcasted, rec_log, handlerVars,
                    watchdogVars, acceptVars, cacheVars, now, shutdown, event,
                    connections >>

\* The counterparty broadcasts a contract transaction itself.
CounterpartyBroadcast(tx) ==
    /\ ~RecoveryOver
    /\ tx \in DOMAIN node_conf
    /\ tx[1] = "contract"
    /\ node_conf[tx] = Unknown
    /\ node_conf' = [node_conf EXCEPT ![tx] = 0]
    /\ UNCHANGED << rec_pc, rec_i, outgoings, incomings, wallet_incoming,
                    wallet_outgoing, timelock_boardcasted, rec_log, handlerVars,
                    watchdogVars, acceptVars, cacheVars, now, shutdown, event,
                    connections >>

\* ------------------------------------------- the acceptance loop and pinger

\* The node goes down or comes back.
NodeFlips ==
    /\ node_up' = ~node_up
    /\ UNCHANGED << accepting_clients, rpc_ping_success, pinger_pc, accept_pc,
                    backlog, spawned_handlers, supVars, fixtureVars, lockVars, handlerVars, watchdogVars,
                    recoveryVars, cacheVars, now, shutdown, event, connections >>

\* A mutant of PingSuccess: the Err arm sets true as well.
PingSuccessAlways(up) ==
    TRUE

\* `if let Err(..) = get_blockchain_info() { rpc_ping_success = false } else
\* { rpc_ping_success = true }`: the ping succeeds when the node answers.
PingSuccess(up) ==
    up

\* check_connection_with_core, from the loop's head through the sleep to the
\* answer of get_blockchain_info.
PingerPing ==
    /\ pinger_pc = "sleep"
    /\ IF shutdown
       THEN pinger_pc' = "stopped" /\ UNCHANGED rpc_ping_success
       ELSE pinger_pc' = "store" /\ rpc_ping_success' = PingSuccess(node_up)
    /\ UNCHANGED << accepting_clients, node_up, accept_pc, backlog,
                    spawned_handlers, supVars, fixtureVars, lockVars, handlerVars, watchdogVars, recoveryVars,
                    cacheVars, now, shutdown, event, connections >>

\* accepting_clients.store(rpc_ping_success, Relaxed).
PingerStore ==
    /\ pinger_pc = "store"
    /\ accepting_clients' = rpc_ping_success
    /\ pinger_pc' = "sleep"
    /\ UNCHANGED << node_up, rpc_ping_success, accept_pc, backlog,
                    spawned_handlers, supVars, fixtureVars, lockVars, handlerVars, watchdogVars, recoveryVars,
                    cacheVars, now, shutdown, event, connections >>

\* A peer dials the listener; the connection waits in the backlog.
PeerDials ==
    /\ connections < MaxConnections
    /\ connections' = connections + 1
    /\ backlog' = backlog + 1
    /\ UNCHANGED << accepting_clients, node_up, rpc_ping_success, pinger_pc,
                    accept_pc, spawned_handlers, supVars, fixtureVars, lockVars, handlerVars, watchdogVars,
                    recoveryVars, cacheVars, now, shutdown, event >>

\* The head of the acceptance loop: `while !maker.shutdown.load(Relaxed)` and
\* `if !accepting_clients.load(Relaxed) { sleep; continue }`.
AcceptLoopCheck ==
    /\ accept_pc = "check"
    /\ accept_pc' = IF shutdown THEN "stopped"
                    ELSE IF ~accepting_clients THEN "sleep"
                    ELSE "accept"
    /\ UNCHANGED << accepting_clients, node_up, rpc_ping_success, pinger_pc,
                    backlog, spawned_handlers, supVars, fixtureVars, lockVars, handlerVars, watchdogVars,
                    recoveryVars, cacheVars, now, shutdown, event, connections >>

\* `match listener.accept()`: a waiting connection gets a handler thread
\* (spawned_handlers notes what the flag is at that moment); WouldBlock does
\* nothing. Any other error of accept, and a failed spawn of the handler
\* thread, return the error from start_maker_server.
AcceptLoopAccept ==
    /\ accept_pc = "accept"
    /\ \E outcome \in {"ok", "accept_err", "spawn_err"} :
          /\ outcome = "spawn_err" => backlog > 0
          /\ IF outcome = "ok"
             THEN /\ accept_pc' = "sleep"
                  /\ UNCHANGED supVars
             ELSE /\ accept_pc' = "failed"
                  /\ sup_pc' = "returned_err"
                  /\ UNCHANGED << highest_fidelity_proof, exit_log >>
          /\ IF backlog > 0 /\ outcome # "accept_err"
             THEN backlog' = backlog - 1
             ELSE UNCHANGED backlog
          /\ IF backlog > 0 /\ outcome = "ok"
             THEN spawned_handlers' =
                      Append(spawned_handlers,
                             [accepting_clients |-> accepting_clients])
             ELSE UNCHANGED spawned_handlers
    /\ UNCHANGED << accepting_clients, node_up, rpc_ping_success, pinger_pc,
                    fixtureVars, lockVars, handlerVars, watchdogVars, recoveryVars, cacheVars, now,
                    shutdown, event, connections >>

\* sleep(heart_beat_interval) is over.
AcceptLoopWake ==
    /\ accept_pc = "sleep"
    /\ accept_pc' = "check"
    /\ UNCHANGED << accepting_clients, node_up, rpc_ping_success, pinger_pc,
                    backlog, spawned_handlers, supVars, fixtureVars, lockVars, handlerVars, watchdogVars,
                    recoveryVars, cacheVars, now, shutdown, event, connections >>

\* Some thread stores true into maker.shutdown.
ShutdownRequested ==
    /\ ~shutdown
    /\ shutdown' = TRUE
    /\ UNCHANGED << handlerVars, watchdogVars, recoveryVars, acceptVars,
                    cacheVars, now, event, connections >>

\* ----------------------------------------------- the supervisor's bootstrap

\* `None` in maker.highest_fidelity_proof.
NoProof == "none"

\* The outcomes of the wallet and network calls the supervisor makes with `?`.
CallOutcomes == {"ok", "err"}

\* setup_fidelity_bond up to its loop: a wallet that already holds a bond gives
\* its proof at once; without a bond the wait loop starts. A failing call
\* returns the error from start_maker_server.
SetupFidelityBond ==
    /\ sup_pc = "setup"
    /\ \E highest_index \in {"some", "none", "err"} :
          /\ sup_pc' = CASE highest_index = "some" -> "post"
                         [] highest_index = "none" -> "fidelity_wait"
                         [] OTHER -> "returned_err"
          /\ highest_fidelity_proof' =
                 IF highest_index = "some" THEN "wallet_bond" ELSE NoProof
    /\ UNCHANGED << exit_log, accepting_clients, node_up, rpc_ping_success,
                    pinger_pc, accept_pc, backlog, spawned_handlers,
                    fixtureVars, lockVars, handlerVars, watchdogVars, recoveryVars, cacheVars, now,
                    shutdown, event, connections >>

\* A mutant of FidelityWaitContinues: the loop never reads the flag.
FidelityWaitContinuesAlways(flag) ==
    TRUE

\* `while !maker.shutdown.load(Relaxed)`: the fidelity wait loop goes on.
FidelityWaitContinues(flag) ==
    ~flag

\* A mutant of AfterCreateFidelity: InsufficientFund is a hard error too.
AfterCreateFidelityGivingUp(result, saved) ==
    CASE result = "created" /\ saved = "ok" -> "post"
      [] OTHER -> "returned_err"

\* Where create_fidelity's result leads: InsufficientFund sleeps and loops,
\* any other error is returned, a created bond fills the slot and the wallet
\* is saved.
AfterCreateFidelity(result, saved) ==
    CASE result = "insufficient_fund" -> "fidelity_sleep"
      [] result = "created" /\ saved = "ok" -> "post"
      [] OTHER -> "returned_err"

\* One turn of setup_fidelity_bond's loop. When the flag ends the loop the
\* function returns Ok with the slot empty.
FidelityWaitTurn ==
    /\ sup_pc = "fidelity_wait"
    /\ IF FidelityWaitContinues(shutdown)
       THEN \E synced \in CallOutcomes,
               result \in {"created", "insufficient_fund", "other_err"},
               saved \in CallOutcomes :
               IF synced = "err"
               THEN /\ sup_pc' = "returned_err"
                    /\ event' = NoEvent
                    /\ UNCHANGED highest_fidelity_proof
               ELSE /\ sup_pc' = AfterCreateFidelity(result, saved)
                    /\ event' = [kind |-> "create_fidelity", result |-> result]
                    /\ highest_fidelity_proof' =
                           IF result = "created" THEN "new_bond"
                           ELSE highest_fidelity_proof
       ELSE /\ sup_pc' = "post"
            /\ event' = NoEvent
            /\ UNCHANGED highest_fidelity_proof
    /\ UNCHANGED << exit_log, accepting_clients, node_up, rpc_ping_success,
                    pinger_pc, accept_pc, backlog, spawned_handlers,
                    fixtureVars, lockVars, handlerVars, watchdogVars, recoveryVars, cacheVars, now,
                    shutdown, connections >>

\* thread::sleep(total_sleep) is over.
FidelityWake ==
    /\ sup_pc = "fidelity_sleep"
    /\ sup_pc' = "fidelity_wait"
    /\ UNCHANGED << highest_fidelity_proof, exit_log, accepting_clients,
                    node_up, rpc_ping_success, pinger_pc, accept_pc, backlog,
                    spawned_handlers, fixtureVars, lockVars, handlerVars, watchdogVars, recoveryVars,
                    cacheVars, now, shutdown, event, connections >>

\* Where one attempt to send the Post leads: a failed connect or send sleeps
\* and tries again.
AfterPost(sent) ==
    IF sent THEN "spawn" ELSE "post_sleep"

\* network_bootstrap after setup_fidelity_bond: the proof is read out of the
\* slot (`unwrap` panics on an empty slot) and one turn of the "keep trying" loop connects to the
\* directory and sends the Post.
DirectoryPost ==
    /\ sup_pc = "post"
    /\ IF highest_fidelity_proof = NoProof
       THEN sup_pc' = "panicked" /\ event' = NoEvent
       ELSE \E sent \in BOOLEAN :
               /\ sup_pc' = AfterPost(sent)
               /\ event' = [kind |-> "post", sent |-> sent]
    /\ UNCHANGED << highest_fidelity_proof, exit_log, accepting_clients,
                    node_up, rpc_ping_success, pinger_pc, accept_pc, backlog,
                    spawned_handlers, fixtureVars, lockVars, handlerVars, watchdogVars, recoveryVars,
                    cacheVars, now, shutdown, connections >>

\* sleep(HEART_BEAT_INTERVAL_SECS) in the Post loop is over.
PostWake ==
    /\ sup_pc = "post_sleep"
    /\ sup_pc' = "post"
    /\ UNCHANGED << highest_fidelity_proof, exit_log, accepting_clients,
                    node_up, rpc_ping_success, pinger_pc, accept_pc, backlog,
                    spawned_handlers, fixtureVars, lockVars, handlerVars, watchdogVars, recoveryVars,
                    cacheVars, now, shutdown, event, connections >>

\* start_maker_server between network_bootstrap and the acceptance loop: the
\* listener is bound, and `if !maker.shutdown.load(Relaxed)` the pinger, the
\* Idle Detector, the Contract Observer and the RPC thread are spawned in
\* this order. `spawned` threads start before a bind or spawn fails
\* (4: none fails) and the error is returned.
SpawnThreads ==
    /\ sup_pc = "spawn"
    /\ \E spawned \in 0..4 :
          /\ shutdown => spawned \in {0, 4}
          /\ pinger_pc' = IF ~shutdown /\ spawned >= 1 THEN "sleep"
                          ELSE "unspawned"
          /\ watchdog_alive' = [idle |-> ~shutdown /\ spawned >= 2,
                                observer |-> ~shutdown /\ spawned >= 3]
          /\ IF spawned = 4
             THEN sup_pc' = "serving" /\ accept_pc' = "check"
             ELSE sup_pc' = "returned_err" /\ UNCHANGED accept_pc
    /\ event' = NoEvent
    /\ UNCHANGED << highest_fidelity_proof, exit_log, accepting_clients,
                    node_up, rpc_ping_success, backlog, spawned_handlers,
                    fixtureVars, lockVars, handlerVars, bad_ip, failed_swap_ip, node_txs,
                    recovery_threads, recoveryVars, cacheVars, now, shutdown,
                    connections >>

\* The head of a watchdog's loop, `if maker.shutdown.load(Relaxed) { break; }`:
\* the thread ends.
WatchdogExits(w) ==
    /\ shutdown
    /\ watchdog_alive[w]
    /\ watchdog_alive' = [watchdog_alive EXCEPT ![w] = FALSE]
    /\ UNCHANGED << fixtureVars, lockVars, handlerVars, bad_ip, failed_swap_ip, node_txs,
                    recovery_threads, recoveryVars, acceptVars, cacheVars,
                    now, shutdown, event, connections >>

\* After the acceptance loop: `maker.get_wallet().write()?.sync()?`.
SupervisorSync ==
    /\ sup_pc = "serving" /\ accept_pc = "stopped"
    /\ \E synced \in CallOutcomes :
          IF synced = "ok"
          THEN sup_pc' = "save" /\ exit_log' = Append(exit_log, "sync")
          ELSE sup_pc' = "returned_err" /\ UNCHANGED exit_log
    /\ UNCHANGED << highest_fidelity_proof, accepting_clients, node_up,
                    rpc_ping_success, pinger_pc, accept_pc, backlog,
                    spawned_handlers, fixtureVars, lockVars, handlerVars, watchdogVars, recoveryVars,
                    cacheVars, now, shutdown, event, connections >>

\* `maker.get_wallet().read()?.save_to_disk()?` and `Ok(())`.
SupervisorSave ==
    /\ sup_pc = "save"
    /\ \E saved \in CallOutcomes :
          IF saved = "ok"
          THEN sup_pc' = "returned_ok" /\ exit_log' = Append(exit_log, "save")
          ELSE sup_pc' = "returned_err" /\ UNCHANGED exit_log
    /\ UNCHANGED << highest_fidelity_proof, accepting_clients, node_up,
                    rpc_ping_success, pinger_pc, accept_pc, backlog,
                    spawned_handlers, fixtureVars, lockVars, handlerVars, watchdogVars, recoveryVars,
                    cacheVars, now, shutdown, event, connections >>

\* ------------------------------------------------------ the contract cache

\* does_prevout_match_cached_contract: no entry for the outpoint, or the same
\* scriptPubKey.
DoesPrevoutMatchCachedContract(map, prevout, spk) ==
    prevout \in DOMAIN map => map[prevout] = spk

\* cache_prevout_to_contract: whether the insertion is taken (a different
\* scriptPubKey for a mapped outpoint is rejected) ...
CacheTakes(map, prevout, spk) ==
    prevout \in DOMAIN map => map[prevout] = spk

\* ... and the map after it: an entry is never overwritten.
CachePrevoutToContract(map, prevout, spk) ==
    IF CacheTakes(map, prevout, spk)
    THEN [o \in DOMAIN map \cup {prevout} |-> IF o = prevout THEN spk ELSE map[o]]
    ELSE map

\* The scriptPubKey the cache holds for an outpoint, "none" when it holds none.
CachedContract(map, prevout) ==
    IF prevout \in DOMAIN map THEN map[prevout] ELSE "none"

\* vs_call's tx before the loop's first turn.
NoTx == [ prevout |-> "none", spk |-> "none" ]

\* vs_call's last_insert before the call's first insertion.
NoInsert == [ prevout |-> "none", spk |-> "none", had |-> "none", result |-> "none" ]

\* A mutant of AfterInsert: the result of the insertion is dropped.
AfterInsertIgnoringResult(taken, last) ==
    IF last THEN "ok" ELSE "check"

\* `cache_prevout_to_contract(..)?` and the rest of the loop's turn: an Err
\* leaves the function, otherwise the signature is pushed and the loop goes on
\* or returns Ok(sigs).
AfterInsert(taken, last) ==
    IF ~taken THEN "err" ELSE IF last THEN "ok" ELSE "check"

\* A mutant of CacheAfterTurn: a failed signing undoes the turn's insertion.
CacheAfterTurnRolledBack(before, inserted, sign_ok) ==
    IF sign_ok THEN inserted ELSE before

\* The cache at the end of a loop turn: the `?` after add_tweak and
\* sign_contract_tx returns with the turn's insertion in place.
CacheAfterTurn(before, inserted, sign_ok) ==
    inserted

PushSigInFront(sigs, i) ==
    << i >> \o sigs

\* `sigs.push(sig)`: the signature of the message's i-th transaction goes to
\* the end of the list.
PushSig(sigs, i) ==
    Append(sigs, i)

\* A handler thread enters verify_and_sign_contract_tx with a message of
\* n contract transactions, 1..MaxTxs.
VsBegin(h, n) ==
    /\ vs_call[h].pc \in {"idle", "ok", "err"}
    /\ vs_call[h].calls < MaxCalls
    /\ vs_call' = [vs_call EXCEPT ![h] =
                      [ pc |-> "check", n |-> n, i |-> 1, tx |-> NoTx, sigs |-> << >>,
                        calls |-> vs_call[h].calls + 1, last_insert |-> NoInsert ]]
    /\ UNCHANGED << prevout_to_contract_map, cache_log, pof_call, handlerVars,
                    watchdogVars, recoveryVars, acceptVars, now, shutdown,
                    event, connections >>

\* The checks of one loop turn on the message's next transaction `tx`, up to
\* is_contract_out_valid: the shape of the transaction, the cache look-up
\* under the read lock, the key and script checks (`valid`). A failure returns
\* Err and drops the signatures.
VsCheck(h, tx) ==
    /\ vs_call[h].pc = "check"
    /\ \E valid \in BOOLEAN :
           vs_call' = [vs_call EXCEPT ![h] =
               IF valid /\ DoesPrevoutMatchCachedContract(prevout_to_contract_map,
                                                          tx.prevout, tx.spk)
               THEN [@ EXCEPT !.pc = "insert", !.tx = tx]
               ELSE [@ EXCEPT !.pc = "err", !.tx = tx, !.sigs = << >>]]
    /\ UNCHANGED << prevout_to_contract_map, cache_log, pof_call, handlerVars,
                    watchdogVars, recoveryVars, acceptVars, now, shutdown,
                    event, connections >>

\* The insertion under the write lock, then signing (add_tweak and
\* sign_contract_tx can fail: `sign_ok`) and `sigs.push(sig)`.
VsInsert(h) ==
    /\ vs_call[h].pc = "insert"
    /\ \E sign_ok \in BOOLEAN :
       LET c == vs_call[h]
           tx == c.tx
           taken == CacheTakes(prevout_to_contract_map, tx.prevout, tx.spk)
           next == IF taken /\ ~sign_ok THEN "err"
                   ELSE AfterInsert(taken, c.i = c.n)
       IN  /\ prevout_to_contract_map' =
                  CacheAfterTurn(prevout_to_contract_map,
                                 CachePrevoutToContract(prevout_to_contract_map,
                                                        tx.prevout, tx.spk),
                                 sign_ok)
           /\ vs_call' = [vs_call EXCEPT ![h] =
                  LET attempt == [ prevout |-> tx.prevout, spk |-> tx.spk,
                                   had |-> CachedContract(prevout_to_contract_map, tx.prevout),
                                   result |-> IF AfterInsert(taken, c.i = c.n) = "err"
                                              THEN "err" ELSE "ok" ]
                  IN  IF next = "err"
                      THEN [@ EXCEPT !.pc = "err", !.sigs = << >>,
                                     !.last_insert = attempt]
                      ELSE [@ EXCEPT !.pc = next, !.i = c.i + 1,
                                     !.sigs = PushSig(c.sigs, c.i),
                                     !.last_insert = attempt]]
           /\ cache_log' = cache_log \cup
                  {[ prevout |-> o, spk |-> prevout_to_contract_map'[o] ] :
                       o \in DOMAIN prevout_to_contract_map'}
    /\ UNCHANGED << pof_call, handlerVars, watchdogVars, recoveryVars,
                    acceptVars, now, shutdown, event, connections >>

\* ------------------------------------------------- verify_proof_of_funding

\* get_tx_out answered None: the node reports no such unspent output.
NoTxOut == -1

\* The shapes of a funding entry's transaction and scripts: all well, the
\* contract redeemscript holds no locktime (read_contract_locktime), no
\* output of the funding transaction pays the multisig
\* (find_funding_output_index), the multisig redeemscript is no 2-of-2
\* (check_reedemscript_is_multisig), or a script lacks the Maker's tweaked
\* pubkey (check_multisig_has_pubkey, check_hashlock_has_pubkey).
FundingShapes ==
    {"ok", "no_locktime", "no_funding_output", "not_multisig", "no_pubkey"}

\* A funding entry of a ProofOfFunding as verify_proof_of_funding reads it:
\* the relative locktime and the hash value in its contract redeemscript, its
\* funding outpoint, the scriptPubKey of its contract redeemscript, the shape
\* of its scripts.
FundingTxInfos ==
    [ locktime : HopLocktimes, hashvalue : Hashvalues, outpoint : Outpoints,
      spk : Spks, shape : FundingShapes ]

\* What the call reads again of an entry after its turn of the loop: the
\* contract redeemscript's hash value and locktime.
ContractRead(fi) ==
    [locktime |-> fi.locktime, hashvalue |-> fi.hashvalue]

\* `locktime - message.next_locktime` on u16: the difference modulo 2^16,
\* and whether the subtraction overflows.
U16Sub(a, b) == (a - b) % (2 ^ 16)

U16SubOverflows(a, b) == a < b

LocktimeTooCloseInclusive(locktime, next_locktime) ==
    U16Sub(locktime, next_locktime) <= MIN_CONTRACT_REACTION_TIME

\* `locktime - message.next_locktime < MIN_CONTRACT_REACTION_TIME`
LocktimeTooClose(locktime, next_locktime) ==
    U16Sub(locktime, next_locktime) < MIN_CONTRACT_REACTION_TIME

NotConfirmedToDepthInclusive(confirmations) ==
    confirmations <= REQUIRED_CONFIRMS

\* `txout.confirmations < (REQUIRED_CONFIRMS as u32)`
NotConfirmedToDepth(confirmations) ==
    confirmations < REQUIRED_CONFIRMS

\* The body of `for funding_info in &message.confirmed_funding_txes` on one
\* entry: "ok" when the loop goes on, else what ends the call. A build with
\* overflow checks panics on an overflowing subtraction; one without wraps.
CheckFundingInfo(fi, next_locktime, overflow_checks, rpc_ok, confirmations, map) ==
    IF fi.shape = "no_locktime"
    THEN "no_locktime"
    ELSE IF overflow_checks /\ U16SubOverflows(fi.locktime, next_locktime)
    THEN "panic"
    ELSE IF LocktimeTooClose(fi.locktime, next_locktime)
    THEN "locktime_too_close"
    ELSE IF fi.shape = "no_funding_output"
    THEN "no_funding_output"
    ELSE IF ~rpc_ok
    THEN "rpc_error"
    ELSE IF confirmations = NoTxOut
    THEN "output_doesnt_exist"
    ELSE IF NotConfirmedToDepth(confirmations)
    THEN "not_confirmed"
    ELSE IF fi.shape = "not_multisig"
    THEN "not_multisig"
    ELSE IF fi.shape = "no_pubkey"
    THEN "no_pubkey"
    ELSE IF ~DoesPrevoutMatchCachedContract(map, fi.outpoint, fi.spk)
    THEN "contract_mismatch"
    ELSE "ok"

\* check_hashvalues_are_equal: the hash value of the first entry when every
\* entry has it, else an error.
CheckHashvaluesAreEqual(entries) ==
    IF \A i \in 1..Len(entries) : entries[i].hashvalue = entries[1].hashvalue
    THEN [ok |-> TRUE, value |-> entries[1].hashvalue]
    ELSE [ok |-> FALSE, value |-> "hashvalues_differ"]

\* The call's position and result: the entries that passed so far, in order.
PofCall(pc, n, next_locktime, entries, result) ==
    [pc |-> pc, n |-> n, next_locktime |-> next_locktime, entries |-> entries,
     result |-> result]

NoResult == [ok |-> FALSE, value |-> "none"]

\* verify_proof_of_funding is called on a message of n funding entries: an
\* empty list is refused at once.
PofBegin(n, next_locktime) ==
    /\ pof_call.pc = "idle"
    /\ pof_call' =
           IF n = 0
           THEN PofCall("err", n, next_locktime, << >>,
                        [ok |-> FALSE, value |-> "no_funding_txs"])
           ELSE PofCall("entries", n, next_locktime, << >>, NoResult)
    /\ event' = NoEvent
    /\ UNCHANGED << prevout_to_contract_map, vs_call, cache_log, handlerVars,
                    watchdogVars, recoveryVars, acceptVars, now, shutdown,
                    connections >>

\* One turn of the loop, on the next entry fi of the message; get_tx_out
\* fails, or answers None or the confirmations of the funding output.
PofEntry(fi) ==
    /\ pof_call.pc = "entries"
    /\ Len(pof_call.entries) < pof_call.n
    /\ \E overflow_checks \in BOOLEAN, rpc_ok \in BOOLEAN,
          confirmations \in NoTxOut..MaxFundingConfs :
           LET outcome == CheckFundingInfo(fi, pof_call.next_locktime,
                                           overflow_checks, rpc_ok,
                                           confirmations,
                                           prevout_to_contract_map)
               entries == Append(pof_call.entries, ContractRead(fi))
           IN  /\ pof_call' =
                      IF outcome = "ok"
                      THEN [pof_call EXCEPT !.entries = entries]
                      ELSE [pof_call EXCEPT
                               !.pc = IF outcome = "panic" THEN "panicked" ELSE "err",
                               !.result = [ok |-> FALSE, value |-> outcome]]
               /\ event' = [kind |-> "pof_entry", entry |-> fi,
                            next_locktime |-> pof_call.next_locktime,
                            rpc_ok |-> rpc_ok,
                            confirmations |-> confirmations,
                            outcome |-> outcome]
    /\ UNCHANGED << prevout_to_contract_map, vs_call, cache_log, handlerVars,
                    watchdogVars, recoveryVars, acceptVars, now, shutdown,
                    connections >>

\* `Ok(check_hashvalues_are_equal(message)?)` after the last entry.
PofFinish ==
    /\ pof_call.pc = "entries"
    /\ Len(pof_call.entries) = pof_call.n
    /\ LET result == CheckHashvaluesAreEqual(pof_call.entries)
       IN  pof_call' = [pof_call EXCEPT
                           !.pc = IF result.ok THEN "ok" ELSE "err",
                           !.result = result]
    /\ event' = NoEvent
    /\ UNCHANGED << prevout_to_contract_map, vs_call, cache_log, handlerVars,
                    watchdogVars, recoveryVars, acceptVars, now, shutdown,
                    connections >>

\* ------------------------------------------ the store mutex and wallet lock

\* The threads that take the store mutex and the wallet lock: the Contract
\* Observer, one recovery thread, and one handler thread inside
\* verify_and_sign_contract_tx.
LockThreads == {"observer", "recovery", "handler"}

\* The operations in which a thread is inside a call to the node once its
\* guard is granted: get_raw_transaction_info and send_raw_transaction.
NodeQueryPcs == {"query", "send"}

\* Thread t is inside a node query.
InNodeQuery(t) ==
    lock_pc[t] \in NodeQueryPcs /\ wallet_waiting[t] = "none"

\* RwLock::read can be granted to t: no write guard is out, and, where the
\* platform gives writers priority, no writer is waiting.
CanRead(t) ==
    /\ wallet_write_guard = "none"
    /\ writer_priority => \A u \in LockThreads : wallet_waiting[u] # "write"

\* RwLock::write can be granted to t: no guard at all is out.
CanWrite(t) ==
    /\ wallet_write_guard = "none"
    /\ \A u \in LockThreads : wallet_read_guards[u] = 0

\* The pending wallet.read() or wallet.write() of thread t returns its guard.
WalletGrant(t) ==
    /\ wallet_waiting[t] # "none"
    /\ IF wallet_waiting[t] = "read"
       THEN /\ CanRead(t)
            /\ wallet_read_guards' =
                   [wallet_read_guards EXCEPT ![t] = @ + 1]
            /\ UNCHANGED wallet_write_guard
       ELSE /\ CanWrite(t)
            /\ wallet_write_guard' = t
            /\ UNCHANGED wallet_read_guards
    /\ wallet_waiting' = [wallet_waiting EXCEPT ![t] = "none"]
    /\ UNCHANGED << lock_pc, store_holder >>
    /\ UNCHANGED << handlerVars, watchdogVars, recoveryVars, accepting_clients,
                    node_up, rpc_ping_success, pinger_pc, accept_pc, backlog,
                    spawned_handlers, supVars, fixtureVars, cacheVars, now,
                    shutdown, event, connections, writer_priority >>

\* Thread t goes on to operation pc, dropping `dropped` of its read guards
\* and its write guard if it holds it, and asking for the guard `wants`
\* ("none", "read" or "write") that pc begins with.
LockStep(t, pc, dropped, wants) ==
    /\ lock_pc' = [lock_pc EXCEPT ![t] = pc]
    /\ wallet_read_guards' = [wallet_read_guards EXCEPT ![t] = @ - dropped]
    /\ wallet_write_guard' =
           IF wallet_write_guard = t THEN "none" ELSE wallet_write_guard
    /\ wallet_waiting' = [wallet_waiting EXCEPT ![t] = wants]

\* What the lock steps leave alone.
LockFrame ==
    UNCHANGED << handlerVars, watchdogVars, recoveryVars, accepting_clients,
                 node_up, rpc_ping_success, pinger_pc, accept_pc, backlog,
                 spawned_handlers, supVars, fixtureVars, cacheVars, now,
                 shutdown, event, connections, writer_priority >>

\* The thread is at pc and is not blocked on the wallet lock.
Running(t, pc) ==
    lock_pc[t] = pc /\ wallet_waiting[t] = "none"

\* check_for_broadcasted_contracts wakes, locks the store and asks the
\* wallet for the read guard of its first get_raw_transaction_info.
ObserverLockStore ==
    /\ Running("observer", "sleep")
    /\ store_holder = "free"
    /\ store_holder' = "observer"
    /\ LockStep("observer", "query", 0, "read")
    /\ LockFrame

\* The node answered the query; the guard, a temporary of the if's
\* condition, is dropped. A contract that was found sends the pass on to
\* get_next_internal_addresses, one that was not to the next txid or to the
\* end of the pass.
ObserverQueryDone(found, more) ==
    /\ Running("observer", "query")
    /\ IF found
       THEN LockStep("observer", "address", 1, "read")
       ELSE IF more
            THEN LockStep("observer", "query", 1, "read")
            ELSE LockStep("observer", "unlock", 1, "none")
    /\ UNCHANGED store_holder
    /\ LockFrame

\* The address is read and its guard dropped at the end of the statement;
\* the recovery thread is spawned and the pass ends.
ObserverAddressDone ==
    /\ Running("observer", "address")
    /\ LockStep("observer", "unlock", 1, "none")
    /\ UNCHANGED store_holder
    /\ LockFrame

\* The scope of lock_onstate ends, and the thread sleeps.
ObserverUnlockStore ==
    /\ Running("observer", "unlock")
    /\ store_holder' = "free"
    /\ LockStep("observer", "sleep", 0, "none")
    /\ LockFrame

\* recover_from_swap's maturity loop asks for the read guard of
\* get_raw_transaction_info.
RecoveryStartQuery ==
    /\ Running("recovery", "sleep")
    /\ LockStep("recovery", "query", 0, "read")
    /\ UNCHANGED store_holder
    /\ LockFrame

\* The node answered. An error or an immature contract ends the if let and
\* drops the guard; a mature contract goes on, inside the body, to the
\* wallet.read() of send_raw_transaction. The guard of
\* `if let Ok(result) = maker.wallet.read()?.rpc.get_raw_transaction_info(..)`
\* is a temporary of the scrutinee and lives to the end of the if let, so
\* none is dropped on the way into the body.
RecoveryQueryDone(result) ==
    /\ Running("recovery", "query")
    /\ IF result = "mature"
       THEN LockStep("recovery", "send", 0, "read")
       ELSE LockStep("recovery", "sleep", 1, "none")
    /\ UNCHANGED store_holder
    /\ LockFrame

\* The timelock-spend is sent; the statement's guard and then the if let's
\* guard are dropped, and the loop asks for the write guard of
\* remove_outgoing_swapcoin.
RecoverySendDone ==
    /\ Running("recovery", "send")
    /\ LockStep("recovery", "remove", wallet_read_guards["recovery"], "write")
    /\ UNCHANGED store_holder
    /\ LockFrame

\* The swapcoin is removed, the guard dropped, and the write guard of the
\* final sync and save asked for.
RecoveryRemoveDone ==
    /\ Running("recovery", "remove")
    /\ LockStep("recovery", "sync", 0, "write")
    /\ UNCHANGED store_holder
    /\ LockFrame

\* The wallet is synced and saved; recover_from_swap returns.
RecoverySyncDone ==
    /\ Running("recovery", "sync")
    /\ LockStep("recovery", "done", 0, "none")
    /\ UNCHANGED store_holder
    /\ LockFrame

\* A handler enters verify_and_sign_contract_tx's loop and asks for the read
\* guard of does_prevout_match_cached_contract.
HandlerStartMatch ==
    /\ Running("handler", "idle")
    /\ LockStep("handler", "match", 0, "read")
    /\ UNCHANGED store_holder
    /\ LockFrame

\* The cache is compared; a mismatch ends the call, a match goes on to the
\* read guard of get_tweakable_keypair.
HandlerMatchDone(matches) ==
    /\ Running("handler", "match")
    /\ IF matches
       THEN LockStep("handler", "keypair", 1, "read")
       ELSE LockStep("handler", "idle", 1, "none")
    /\ UNCHANGED store_holder
    /\ LockFrame

\* The keypair is read and the contract checked; the handler asks for the
\* write guard of cache_prevout_to_contract.
HandlerKeypairDone ==
    /\ Running("handler", "keypair")
    /\ LockStep("handler", "cache", 1, "write")
    /\ UNCHANGED store_holder
    /\ LockFrame

\* The cache entry is written and the guard dropped.
HandlerCacheDone ==
    /\ Running("handler", "cache")
    /\ LockStep("handler", "idle", 0, "none")
    /\ UNCHANGED store_holder
    /\ LockFrame

\* A thread waits for a wallet guard that can never be granted: it waits to
\* read while it holds a read guard, and a writer that has priority over it
\* waits for that guard to be dropped.
WalletDeadlocked ==
    /\ writer_priority
    /\ \E r \in LockThreads :
           wallet_waiting[r] = "read" /\ wallet_read_guards[r] > 0
    /\ \E w \in LockThreads : wallet_waiting[w] = "write"

\* ------------------------------------------------------- specifications

\* The values of the variables a specification does not use.
RecoveryUnused ==
    /\ rec_pc = "unused" /\ rec_i = 0
    /\ outgoings = << >> /\ incomings = << >>
    /\ wallet_incoming = {} /\ wallet_outgoing = {}
    /\ node_conf = << >> /\ timelock_boardcasted = << >> /\ rec_log = << >>

\* A Maker of normal behaviour, and no Taker that keeps a list.
FixtureUnused ==
    behavior = "Normal" /\ bad_makers = << >>

\* No thread is at a lock, and no lock is held.
LockUnused ==
    /\ lock_pc = [t \in LockThreads |-> "unused"]
    /\ store_holder = "free"
    /\ wallet_read_guards = [t \in LockThreads |-> 0]
    /\ wallet_write_guard = "none"
    /\ wallet_waiting = [t \in LockThreads |-> "none"]
    /\ writer_priority = FALSE

ServerUnused ==
    /\ accepting_clients = FALSE /\ node_up = TRUE
    /\ rpc_ping_success = FALSE /\ pinger_pc = "unused"
    /\ accept_pc = "unused" /\ backlog = 0 /\ spawned_handlers = << >>
    /\ sup_pc = "unused" /\ highest_fidelity_proof = NoProof /\ exit_log = << >>

AcceptUnused ==
    /\ ServerUnused
    /\ FixtureUnused
    /\ LockUnused

PofUnused ==
    pof_call = << >>

CacheUnused ==
    /\ prevout_to_contract_map = << >> /\ vs_call = << >> /\ cache_log = {}
    /\ PofUnused

\* Maker::init: an empty store; no connection yet.
StoreInit ==
    /\ conn = [p \in Peers |-> Ended("none")]
    /\ connection_state = << >>
    /\ bad_ip = {} /\ failed_swap_ip = {} /\ node_txs = {}
    /\ recovery_threads = << >>
    /\ event = NoEvent
    /\ now = 0
    /\ shutdown = FALSE
    /\ connections = 0

\* The peers and their handlers; a ProofOfFunding carries 1..MaxCoins funding
\* entries.
HandlerNext(record) ==
    \/ \E p \in Peers : ClientConnects(p)
    \/ \E p \in Peers, kind \in MessageKinds \ {"ProofOfFunding"} :
          HandleClientMessage(p, kind, 1, record)
    \/ \E p \in Peers, k \in 1..MaxCoins :
          HandleClientMessage(p, "ProofOfFunding", k, record)
    \/ \E p \in Peers : DecodeError(p, record)

\* Peers and their handlers, with the history of the messages handled.
Init ==
    /\ StoreInit
    /\ watchdog_alive = [idle |-> FALSE, observer |-> FALSE]
    /\ RecoveryUnused /\ AcceptUnused /\ CacheUnused

Next ==
    HandlerNext(TRUE)

Spec == Init /\ [][Next]_vars

\* Peers and their handlers, and reads that fail.
NextRead ==
    \/ HandlerNext(TRUE)
    \/ \E p \in Peers, error \in ReadErrors : ReadError(p, error, TRUE)

SpecRead == Init /\ [][NextRead]_vars

\* Peers and their handlers at a Maker of any behaviour, and the Taker's list.
InitBehavior ==
    /\ StoreInit
    /\ watchdog_alive = [idle |-> FALSE, observer |-> FALSE]
    /\ behavior \in MakerBehaviors /\ bad_makers = << >>
    /\ RecoveryUnused /\ ServerUnused /\ LockUnused /\ CacheUnused

NextBehavior ==
    \/ HandlerNext(TRUE)
    \/ \E p \in Peers : TakerMarksBadMaker(p)

SpecBehavior == InitBehavior /\ [][NextBehavior]_vars

\* The Taker is a running process: it gets to record what it has seen.
BehaviorFairness ==
    \A p \in Peers : WF_vars(TakerMarksBadMaker(p))

SpecBehaviorFair == InitBehavior /\ [][NextBehavior]_vars /\ BehaviorFairness

\* Peers, their handlers, the clock and the Idle Detector.
InitIdle ==
    /\ StoreInit
    /\ watchdog_alive = [idle |-> TRUE, observer |-> FALSE]
    /\ RecoveryUnused /\ AcceptUnused /\ CacheUnused

NextIdle ==
    \/ HandlerNext(FALSE)
    \/ \E d \in TickSteps : Tick(d)
    \/ CheckForIdleStatesPass

SpecIdle == InitIdle /\ [][NextIdle]_vars

\* Time passes, and the regular peer is not silent for longer than the
\* timeout: while the store has its entry, its next message comes in time.
CadenceTick(d) ==
    /\ RegularPeer \in DOMAIN connection_state
       => now + d - connection_state[RegularPeer].last_seen <= IDLE_SECS
    /\ now + d \in CadenceTimes
    /\ Tick(d)

\* Peers, their handlers, the clock and the Idle Detector, with one peer that
\* keeps its messages no more than 60 seconds apart.
NextCadence ==
    \/ HandlerNext(FALSE)
    \/ \E d \in CadenceSteps : CadenceTick(d)
    \/ CheckForIdleStatesPass

SpecCadence == InitIdle /\ [][NextCadence]_vars

\* Peers, their handlers, the node and the Contract Observer.
InitObserver ==
    /\ StoreInit
    /\ watchdog_alive = [idle |-> FALSE, observer |-> TRUE]
    /\ RecoveryUnused /\ AcceptUnused /\ CacheUnused

NextObserver ==
    \/ HandlerNext(FALSE)
    \/ \E p \in Peers, i \in 1..MaxCoins, d \in {"in", "out"} :
          ContractBroadcast(p, << d, p, i >>)
    \/ CheckForBroadcastedContractsPass

SpecObserver == InitObserver /\ [][NextObserver]_vars

\* Peers, their handlers, the clock, the node and both watchdogs.
InitWatchdogs ==
    /\ StoreInit
    /\ watchdog_alive = [idle |-> TRUE, observer |-> TRUE]
    /\ RecoveryUnused /\ AcceptUnused /\ CacheUnused

NextWatchdogs ==
    \/ HandlerNext(FALSE)
    \/ \E d \in TickSteps : Tick(d)
    \/ \E p \in Peers, i \in 1..MaxCoins, d \in {"in", "out"} :
          ContractBroadcast(p, << d, p, i >>)
    \/ CheckForIdleStatesPass
    \/ CheckForBroadcastedContractsPass

SpecWatchdogs == InitWatchdogs /\ [][NextWatchdogs]_vars

\* The server after its setup: the flag starts false, the pinger and the
\* acceptance loop are at the head of their loops.
InitAccept ==
    /\ accepting_clients = FALSE /\ node_up \in BOOLEAN
    /\ rpc_ping_success = FALSE /\ pinger_pc = "sleep"
    /\ accept_pc = "check" /\ backlog = 0 /\ spawned_handlers = << >>
    /\ sup_pc = "serving" /\ highest_fidelity_proof = "wallet_bond" /\ exit_log = << >>
    /\ FixtureUnused /\ LockUnused
    /\ StoreInit
    /\ watchdog_alive = [idle |-> FALSE, observer |-> FALSE]
    /\ RecoveryUnused /\ CacheUnused

NextAccept ==
    \/ NodeFlips
    \/ PingerPing
    \/ PingerStore
    \/ PeerDials
    \/ AcceptLoopCheck
    \/ AcceptLoopAccept
    \/ AcceptLoopWake
    \/ ShutdownRequested

SpecAccept == InitAccept /\ [][NextAccept]_vars

\* start_maker_server from its first line: nothing is spawned, the slot is
\* empty, nobody has connected.
InitSupervisor ==
    /\ accepting_clients = FALSE /\ node_up \in BOOLEAN
    /\ rpc_ping_success = FALSE /\ pinger_pc = "unspawned"
    /\ accept_pc = "unstarted" /\ backlog = 0 /\ spawned_handlers = << >>
    /\ sup_pc = "setup" /\ highest_fidelity_proof = NoProof /\ exit_log = << >>
    /\ FixtureUnused /\ LockUnused
    /\ StoreInit
    /\ watchdog_alive = [idle |-> FALSE, observer |-> FALSE]
    /\ RecoveryUnused /\ CacheUnused

NextSupervisor ==
    \/ SetupFidelityBond
    \/ FidelityWaitTurn
    \/ FidelityWake
    \/ DirectoryPost
    \/ PostWake
    \/ SpawnThreads
    \/ NodeFlips
    \/ PingerPing
    \/ PingerStore
    \/ PeerDials
    \/ AcceptLoopCheck
    \/ AcceptLoopAccept
    \/ AcceptLoopWake
    \/ CheckForIdleStatesPass
    \/ CheckForBroadcastedContractsPass
    \/ \E w \in {"idle", "observer"} : WatchdogExits(w)
    \/ SupervisorSync
    \/ SupervisorSave
    \/ ShutdownRequested

SpecSupervisor == InitSupervisor /\ [][NextSupervisor]_vars

\* Every thread that is at a step of its loop gets to take it: the sleeps
\* are finite and the operating system schedules each thread.
SupervisorFairness ==
    /\ WF_vars(FidelityWaitTurn)
    /\ WF_vars(FidelityWake)
    /\ WF_vars(PingerPing)
    /\ WF_vars(PingerStore)
    /\ WF_vars(AcceptLoopCheck)
    /\ WF_vars(AcceptLoopAccept)
    /\ WF_vars(AcceptLoopWake)
    /\ \A w \in {"idle", "observer"} : WF_vars(WatchdogExits(w))

SpecSupervisorFair ==
    InitSupervisor /\ [][NextSupervisor]_vars /\ SupervisorFairness

\* The contract transactions a ReqContractSigsForSender can carry: the input's
\* previous_output and the output's script_pubkey.
ContractTxs ==
    [prevout : Outpoints, spk : Spks]

\* Handler threads that validate against one wallet with an empty cache.
InitCache ==
    /\ prevout_to_contract_map = << >>
    /\ vs_call = [h \in Handlers |->
                     [pc |-> "idle", n |-> 0, i |-> 0, tx |-> NoTx, sigs |-> << >>,
                      calls |-> 0, last_insert |-> NoInsert]]
    /\ cache_log = {}
    /\ PofUnused
    /\ StoreInit
    /\ watchdog_alive = [idle |-> FALSE, observer |-> FALSE]
    /\ RecoveryUnused /\ AcceptUnused

NextCache ==
    \/ \E h \in Handlers, n \in 1..MaxTxs : VsBegin(h, n)
    \/ \E h \in Handlers, tx \in ContractTxs : VsCheck(h, tx)
    \/ \E h \in Handlers : VsInsert(h)

SpecCache == InitCache /\ [][NextCache]_vars

\* The caches earlier verify_and_sign_contract_tx calls can have left: any
\* outpoints, each with one scriptPubKey.
CachedMaps ==
    UNION {[D -> Spks] : D \in SUBSET Outpoints}

\* One call of verify_proof_of_funding against a wallet whose cache holds
\* what earlier ReqContractSigsForSender messages put there.
InitPof ==
    /\ prevout_to_contract_map \in CachedMaps
    /\ vs_call = << >> /\ cache_log = {}
    /\ pof_call = PofCall("idle", 0, 0, << >>, NoResult)
    /\ StoreInit
    /\ watchdog_alive = [idle |-> FALSE, observer |-> FALSE]
    /\ RecoveryUnused /\ AcceptUnused

NextPof ==
    \/ \E n \in 0..MaxFundingTxs, next_locktime \in NextLocktimes :
          PofBegin(n, next_locktime)
    \/ \E fi \in FundingTxInfos : PofEntry(fi)
    \/ PofFinish

SpecPof == InitPof /\ [][NextPof]_vars

\* One run of recover_from_swap: a payload of up to MaxRecCoins pairs of
\* outgoing and incoming swapcoins (the watchdogs zip the two lists), a wallet
\* that holds some swapcoins, and a node that knows none of the transactions
\* yet.
InitRecovery ==
    /\ \E n_out \in 0..MaxRecCoins :
       \E n_in \in {n_out}, locks \in [1..n_out -> 1..MaxTimelock] :
          /\ outgoings = [i \in 1..n_out |->
                             [redeemscript |-> << "out", i >>, timelock |-> locks[i]]]
          /\ incomings = [i \in 1..n_in |-> [redeemscript |-> << "in", i >>]]
          /\ node_conf = [tx \in {ContractTx(<< "out", i >>) : i \in 1..n_out}
                                   \cup {TimelockSpendTx(<< "out", i >>) : i \in 1..n_out}
                                   \cup {ContractTx(<< "in", i >>) : i \in 1..n_in}
                              |-> Unknown]
          /\ \E missing_in \in SUBSET {<< "in", n_in >>} :
                /\ wallet_incoming = ({<< "in", i >> : i \in 1..n_in} \ missing_in)
                                         \cup {<< "in", 0 >>}
                /\ wallet_outgoing = {<< "out", i >> : i \in 0..n_out}
    /\ rec_pc = "incomings" /\ rec_i = 1
    /\ timelock_boardcasted = << >> /\ rec_log = << >>
    /\ StoreInit
    /\ watchdog_alive = [idle |-> FALSE, observer |-> FALSE]
    /\ AcceptUnused /\ CacheUnused

NextRecovery ==
    \/ RecoverIncoming
    \/ RecoverSaveToDisk
    \/ RecoverOutgoing
    \/ MaturityCheck
    \/ MaturityPassEnd
    \/ MaturityWake
    \/ MineBlock
    \/ \E tx \in DOMAIN node_conf : CounterpartyBroadcast(tx)

SpecRecovery == InitRecovery /\ [][NextRecovery]_vars

\* The recovery thread is scheduled: a step of recover_from_swap that can be
\* taken is taken in the end. The chain and the counterparty owe nothing.
RecoveryFairness ==
    /\ WF_vars(RecoverIncoming)
    /\ WF_vars(RecoverSaveToDisk)
    /\ WF_vars(RecoverOutgoing)
    /\ WF_vars(MaturityCheck)
    /\ WF_vars(MaturityPassEnd)
    /\ WF_vars(MaturityWake)

\* The recovery thread next to whoever sets the shutdown flag.
NextRecoveryWithShutdown ==
    \/ RecoverIncoming
    \/ RecoverSaveToDisk
    \/ RecoverOutgoing
    \/ MaturityCheck
    \/ MaturityPassEnd
    \/ MaturityWake
    \/ MineBlock
    \/ \E tx \in DOMAIN node_conf : CounterpartyBroadcast(tx)
    \/ ShutdownRequested

SpecRecoveryFair ==
    InitRecovery /\ [][NextRecoveryWithShutdown]_vars /\ RecoveryFairness

InitLocks ==
    /\ StoreInit
    /\ watchdog_alive = [idle |-> FALSE, observer |-> TRUE]
    /\ RecoveryUnused /\ ServerUnused /\ FixtureUnused /\ CacheUnused
    /\ lock_pc = [observer |-> "sleep", recovery |-> "sleep",
                  handler |-> "idle"]
    /\ store_holder = "free"
    /\ wallet_read_guards = [t \in LockThreads |-> 0]
    /\ wallet_write_guard = "none"
    /\ wallet_waiting = [t \in LockThreads |-> "none"]
    /\ writer_priority \in BOOLEAN

NextLocks ==
    \/ \E t \in LockThreads : WalletGrant(t)
    \/ ObserverLockStore
    \/ \E found \in BOOLEAN, more \in BOOLEAN : ObserverQueryDone(found, more)
    \/ ObserverAddressDone
    \/ ObserverUnlockStore
    \/ RecoveryStartQuery
    \/ \E result \in {"err", "immature", "mature"} : RecoveryQueryDone(result)
    \/ RecoverySendDone
    \/ RecoveryRemoveDone
    \/ RecoverySyncDone
    \/ HandlerStartMatch
    \/ \E matches \in BOOLEAN : HandlerMatchDone(matches)
    \/ HandlerKeypairDone
    \/ HandlerCacheDone

\* The lock operations of the Contract Observer, a recovery thread and a
\* handler thread, interleaved.
SpecLocks == InitLocks /\ [][NextLocks]_vars


\* ------------------------------------------------------------- claims

\* The order of C1: the states by name, and the kinds accepted at each place.
C1States ==
    << "TakerHello", "NewlyConnectedTaker", "ReqContractSigsForSender",
       "ProofOfFunding", "ProofOfFundingORContractSigsForRecvrAndSender",
       "ReqContractSigsForRecvr", "HashPreimage", "PrivateKeyHandover" >>

C1Order ==
    << {"TakerHello"}, {"NewlyConnectedTaker"}, {"ReqContractSigsForSender"},
       {"ProofOfFunding"}, {"ProofOfFunding", "ContractSigsForRecvrAndSender"},
       {"ReqContractSigsForRecvr"}, {"HashPreimage"}, {"PrivateKeyHandover"} >>

\* C1: on every connection the kinds of the accepted messages are a prefix of
\* the protocol order, and expected_next_message is the state that follows
\* that prefix: TakerHello on a new connection, then one state further per
\* accepted message, none skipped and none gone back to.
C1_AcceptedKindsFollowTheOrder ==
    \A p \in Peers :
        conn[p].status \in {"open", "done"} =>
            LET a == conn[p].accepted
            IN  /\ Len(a) <= Len(C1Order)
                /\ \A i \in 1..Len(a) : a[i] \in C1Order[i]
                /\ Len(a) < Len(C1Order) =>
                       /\ conn[p].status = "open"
                       /\ conn[p].state.allowed_message = C1States[Len(a) + 1]
                /\ Len(a) = Len(C1Order) => conn[p].status = "done"

\* A connection went through the whole order, by way of ContractSigsForRecvrAndSender.
C1_Witness ==
    \E p \in Peers :
        /\ conn[p].status = "done"
        /\ Len(conn[p].accepted) = 8
        /\ conn[p].accepted[5] = "ContractSigsForRecvrAndSender"

\* The kinds C2 says a state allows.
C2Allowed(m) ==
    IF m = "ProofOfFundingORContractSigsForRecvrAndSender"
    THEN {"ProofOfFunding", "ContractSigsForRecvrAndSender"}
    ELSE {m}

\* The last step handled a message of a kind the peer's state does not allow.
C2WrongKind ==
    /\ event.kind = "message"
    /\ event.message \in MessageKinds
    /\ event.message \notin C2Allowed(event.before.allowed_message)

\* C2: a message whose kind the peer's expected_next_message does not allow
\* fails, the connection is closed, and the peer's incoming and outgoing
\* swapcoins are what they were before the message.
C2_WrongKindClosesAndKeepsSwapcoins ==
    C2WrongKind =>
        /\ event.result = "err"
        /\ event.status = "closed"
        /\ conn[event.ip].status = "closed"
        /\ event.after.incoming_swapcoins = event.before.incoming_swapcoins
        /\ event.after.outgoing_swapcoins = event.before.outgoing_swapcoins

\* A wrong message arrived on a connection that holds swapcoins.
C2_Witness ==
    /\ C2WrongKind
    /\ event.result = "err"
    /\ Len(event.before.incoming_swapcoins) > 0
    /\ event.before.allowed_message = "ProofOfFundingORContractSigsForRecvrAndSender"

\* The entries of the recovery log that are timelock-spend broadcasts.
C3Spends == {i \in 1..Len(rec_log) : rec_log[i].op = "spend"}

\* C3: the recovery engine broadcasts the timelock-spend of an outgoing
\* swapcoin of its payload at most once, and when it does the node reports at
\* least relative_timelock confirmations for the contract transaction.
C3_TimelockSpendOnceAndMature ==
    \A i \in C3Spends :
        /\ \E k \in 1..Len(outgoings) :
               /\ rec_log[i].tx = << "spend", outgoings[k].redeemscript >>
               /\ rec_log[i].timelock = outgoings[k].timelock
        /\ rec_log[i].conf >= rec_log[i].timelock
        /\ \A j \in C3Spends : j # i => rec_log[j].tx # rec_log[i].tx

C3_Witness ==
    /\ \E i \in C3Spends, j \in C3Spends : rec_log[i].tx # rec_log[j].tx
    /\ \E i \in C3Spends : rec_log[i].timelock = 2 /\ rec_log[i].conf = 3
    /\ rec_pc = "done"

\* C4: when the recovery engine returns successfully, the wallet holds none of
\* the incoming and none of the outgoing swapcoins of the payload.
C4_SuccessLeavesNoPayloadSwapcoin ==
    rec_pc = "done" =>
        /\ \A i \in 1..Len(incomings) : incomings[i].redeemscript \notin wallet_incoming
        /\ \A i \in 1..Len(outgoings) : outgoings[i].redeemscript \notin wallet_outgoing

C4_Witness ==
    /\ rec_pc = "done"
    /\ Len(incomings) = 2 /\ Len(outgoings) = 2
    /\ << "in", 0 >> \in wallet_incoming
    /\ << "out", 0 >> \in wallet_outgoing

\* How long the peer of a store entry had been silent when a pass looked.
C7Silent(ip) ==
    IF event.at >= event.before[ip].last_seen
    THEN event.at - event.before[ip].last_seen ELSE 0

C7Triggered(ip) == \E t \in event.spawned : t.ip = ip

\* C7: an idle-detection pass that runs to its end triggers recovery for a
\* stored peer if and only if the peer has been silent for more than 60
\* seconds, and leaves a peer silent for 60 seconds or less in the store,
\* untouched.
C7_IdlePassTriggersExactlyPastSixty ==
    (event.kind = "idle_pass" /\ event.result = "ok") =>
        \A ip \in DOMAIN event.before :
            /\ C7Triggered(ip) <=> (C7Silent(ip) > 60)
            /\ C7Silent(ip) <= 60 =>
                   /\ ip \in DOMAIN event.after
                   /\ event.after[ip] = event.before[ip]

C8HoldsSwapcoins(st) ==
    Len(st.incoming_swapcoins) > 0 \/ Len(st.outgoing_swapcoins) > 0

\* C8: an idle-detection pass that runs to its end hands every peer that is
\* past the idle threshold and holds swapcoins to recovery and removes its
\* entry from the store.
C8_EveryIdlePeerWithSwapcoinsRecovered ==
    (event.kind = "idle_pass" /\ event.result = "ok") =>
        \A ip \in DOMAIN event.before :
            (C7Silent(ip) > 60 /\ C8HoldsSwapcoins(event.before[ip].state)) =>
                /\ \E t \in event.spawned : t.ip = ip /\ t.by = "idle"
                /\ ip \notin DOMAIN event.after

\* C9: the idle detector spawns a recovery thread only for a peer whose state
\* holds at least one pair of incoming and outgoing swapcoins.
C9_IdleRecoveryOnlyWithSwapcoins ==
    event.kind = "idle_pass" =>
        \A t \in event.spawned :
            /\ Len(event.before[t.ip].state.incoming_swapcoins) >= 1
            /\ Len(event.before[t.ip].state.outgoing_swapcoins) >= 1

\* The contract transactions of a stored peer, as the pass saw them.
C10Contracts(ip) ==
    {event.before[ip].state.incoming_swapcoins[i].redeemscript :
         i \in DOMAIN event.before[ip].state.incoming_swapcoins}
    \cup {event.before[ip].state.outgoing_swapcoins[i].redeemscript :
         i \in DOMAIN event.before[ip].state.outgoing_swapcoins}

\* C10: in a pass of the broadcast observer that runs to its end, a peer with
\* a contract transaction the node reports gets a recovery thread and leaves
\* the store, and a peer none of whose contract transactions the node knows
\* stays in the store unchanged.
C10_ObserverHandlesExactlyReportedPeers ==
    (event.kind = "observer_pass" /\ event.result = "ok") =>
        \A ip \in DOMAIN event.before :
            /\ ip \in event.reported =>
                   /\ \E t \in event.spawned : t.ip = ip /\ t.by = "observer"
                   /\ ip \notin DOMAIN event.after
            /\ C10Contracts(ip) \cap node_txs = {} =>
                   /\ ip \in DOMAIN event.after
                   /\ event.after[ip] = event.before[ip]

\* C5: whenever the acceptance loop hands a new connection to a client handler
\* thread, accepting_clients is true at that moment.
C5_HandlerSpawnedOnlyWhileAccepting ==
    \A i \in 1..Len(spawned_handlers) : spawned_handlers[i].accepting_clients

\* C6: an outpoint the cache once mapped to a scriptPubKey stays mapped to it,
\* and an attempt to insert a different scriptPubKey for a mapped outpoint
\* fails.
C6_CacheOnlyGrowsAndRejectsConflicts ==
    /\ \A e \in cache_log :
           /\ e.prevout \in DOMAIN prevout_to_contract_map
           /\ prevout_to_contract_map[e.prevout] = e.spk
    /\ \A h \in Handlers :
           LET a == vs_call[h].last_insert
           IN  (a.had # "none" /\ a.had # a.spk) => a.result = "err"

C6_Witness ==
    /\ \E h \in Handlers :
           LET a == vs_call[h].last_insert
           IN  a.had # "none" /\ a.had # a.spk /\ a.result = "err"
    /\ \E h \in Handlers :
           LET a == vs_call[h].last_insert
           IN  a.had = "none" /\ a.result = "ok"
    /\ Cardinality(cache_log) >= 2

\* The places of rec_log before place j that hold the entry (op, tx).
C11Earlier(j, op, tx) ==
    \E i \in 1..(j - 1) : rec_log[i].op = op /\ rec_log[i].tx = tx

C11IsOutgoingContract(e) ==
    /\ e.op = "contract"
    /\ \E k \in 1..Len(outgoings) : e.tx = << "contract", outgoings[k].redeemscript >>

\* C11: in one run of the recovery engine every incoming contract is handled
\* and its swapcoin removed before any outgoing contract is handled, every
\* outgoing contract is handled before any timelock-spend is sent, and no
\* outgoing swapcoin is removed before the timelock-spend of every outgoing of
\* the payload has been sent.
C11_RecoveryStepsInOrder ==
    \A j \in 1..Len(rec_log) :
        /\ C11IsOutgoingContract(rec_log[j]) =>
               \A k \in 1..Len(incomings) :
                   /\ C11Earlier(j, "contract", << "contract", incomings[k].redeemscript >>)
                   /\ C11Earlier(j, "remove_incoming", incomings[k].redeemscript)
        /\ rec_log[j].op = "remove_incoming" =>
               C11Earlier(j, "contract", << "contract", rec_log[j].tx >>)
        /\ rec_log[j].op = "spend" =>
               \A k \in 1..Len(outgoings) :
                   C11Earlier(j, "contract", << "contract", outgoings[k].redeemscript >>)
        /\ rec_log[j].op = "remove_outgoing" =>
               \A k \in 1..Len(outgoings) :
                   C11Earlier(j, "spend", << "spend", outgoings[k].redeemscript >>)

C11_Witness ==
    /\ rec_pc = "done"
    /\ Len(incomings) = 2 /\ Len(outgoings) = 2
    /\ \E j \in 1..Len(rec_log) : rec_log[j].op = "remove_outgoing"
    /\ \E i \in C3Spends, j \in C3Spends : rec_log[i].conf # rec_log[j].conf

\* C12: in a turn of the maturity loop, an outgoing contract not yet swept
\* that the node reports with at least relative_timelock confirmations
\* (exactly relative_timelock included) has its timelock-spend sent in that
\* turn; with fewer confirmations it is not sent.
C12_SweptAtExactlyTheTimelock ==
    (event.kind = "maturity" /\ ~event.swept /\ event.reported) =>
        /\ event.conf >= event.timelock => event.sent
        /\ event.conf < event.timelock => ~event.sent

\* C13: a send_raw_transaction that fails (for an incoming contract, an
\* outgoing contract or a timelock-spend) does not end the recovery engine,
\* which returns only when every outgoing is swept and the swapcoins are
\* removed, or on shutdown.
C13_FailedSendDoesNotEndRecovery ==
    /\ (event.kind \in {"contract", "maturity"} /\ event.sent /\ ~event.ok) =>
           rec_pc \notin {"done", "failed"}
    /\ rec_pc \in {"done", "failed"} =>
           \/ shutdown
           \/ /\ Len(timelock_boardcasted) = Len(outgoings)
              /\ \A k \in 1..Len(incomings) :
                     incomings[k].redeemscript \notin wallet_incoming
              /\ \A k \in 1..Len(outgoings) :
                     outgoings[k].redeemscript \notin wallet_outgoing

\* C14: once the shutdown flag is set, a running recovery engine returns in
\* the end, whether or not its outgoing contracts mature.
C14_ShutdownEndsRecovery ==
    shutdown ~> (rec_pc \in {"done", "failed", "panicked"})

C15Removals(op, rs) ==
    Cardinality({i \in 1..Len(rec_log) : rec_log[i].op = op /\ rec_log[i].tx = rs})

\* C15: a contract transaction the node already reports is not sent again by
\* recovery, and each swapcoin is removed from the wallet at most once: the
\* swapcoin of a handled incoming contract is gone after its one removal,
\* and no outgoing swapcoin has two removals.
C15_ReportedContractNotResentAndRemovedOnce ==
    /\ (event.kind = "contract" /\ event.reported) => ~event.sent
    /\ \A k \in 1..Len(incomings) :
           LET rs == incomings[k].redeemscript
           IN  /\ C15Removals("remove_incoming", rs) <= 1
               /\ C15Removals("remove_incoming", rs) = 1 => rs \notin wallet_incoming
    /\ \A k \in 1..Len(outgoings) :
           LET rs == outgoings[k].redeemscript
           IN  /\ C15Removals("remove_outgoing", rs) <= 1
               /\ C15Removals("remove_outgoing", rs) = 1 => rs \notin wallet_outgoing

C15_Witness ==
    /\ event.kind = "contract"
    /\ event.reported
    /\ ~event.sent
    /\ \E k \in 1..Len(incomings) :
           /\ event.tx = ContractTx(incomings[k].redeemscript)
           /\ C15Removals("remove_incoming", incomings[k].redeemscript) = 1
           /\ incomings[k].redeemscript \notin wallet_incoming

\* C16: a pass of the idle-connection watchdog over an empty connection store
\* changes nothing: the store is still empty, no recovery thread is spawned,
\* the wallet's swapcoins and the shutdown flag are as before, and the
\* watchdog goes on.
C16_IdlePassOverEmptyStoreIsNoOp ==
    [][(DOMAIN connection_state = {} /\ CheckForIdleStatesPass) =>
          /\ DOMAIN connection_state' = {}
          /\ recovery_threads' = recovery_threads
          /\ event'.spawned = {}
          /\ event'.result = "ok"
          /\ wallet_incoming' = wallet_incoming
          /\ wallet_outgoing' = wallet_outgoing
          /\ shutdown' = shutdown
          /\ watchdog_alive' = watchdog_alive]_vars

C16_Witness ==
    /\ event.kind = "idle_pass"
    /\ DOMAIN event.before = {}
    /\ DOMAIN connection_state = {}
    /\ bad_ip # {}
    /\ Len(recovery_threads) = 1
    /\ event.at > IDLE_SECS

\* The turn of the loop the last step took met no failure of the node, found
\* the funding output with the required confirmations, well-shaped scripts
\* and no other contract cached for the outpoint.
C17OtherChecksPass ==
    /\ event.entry.shape = "ok"
    /\ event.rpc_ok
    /\ event.confirmations >= 1
    /\ (event.entry.outpoint \in DOMAIN prevout_to_contract_map =>
            prevout_to_contract_map[event.entry.outpoint] = event.entry.spk)

\* C17: verify_proof_of_funding accepts a funding entry whose hop locktime is
\* exactly 48 blocks after next_locktime and rejects one at 47 blocks, all
\* other checks passing.
C17_LocktimeDifferenceBoundary ==
    (event.kind = "pof_entry" /\ C17OtherChecksPass) =>
        /\ event.entry.locktime - event.next_locktime = 48 =>
               event.outcome = "ok"
        /\ event.entry.locktime - event.next_locktime = 47 =>
               event.outcome = "locktime_too_close"

C17_Witness ==
    /\ event.kind = "pof_entry"
    /\ C17OtherChecksPass
    /\ event.entry.locktime - event.next_locktime = 47
    /\ pof_call.pc = "err"
    /\ Len(pof_call.entries) = 1
    /\ pof_call.entries[1].locktime - pof_call.next_locktime = 48

\* The turn of the loop the last step took passed every check but the one of
\* the confirmations.
C18OtherChecksPass ==
    /\ event.entry.locktime - event.next_locktime >= 48
    /\ event.entry.shape = "ok"
    /\ (event.entry.outpoint \in DOMAIN prevout_to_contract_map =>
            prevout_to_contract_map[event.entry.outpoint] = event.entry.spk)

\* C18: verify_proof_of_funding accepts a funding output the node reports
\* with exactly one confirmation (REQUIRED_CONFIRMS), and rejects one with
\* zero confirmations, one the node does not report, and one the node could
\* not be asked about.
C18_ConfirmationsBoundary ==
    (event.kind = "pof_entry" /\ C18OtherChecksPass) =>
        /\ (event.rpc_ok /\ event.confirmations = 1) => event.outcome = "ok"
        /\ (event.rpc_ok /\ event.confirmations = 0) =>
               event.outcome = "not_confirmed"
        /\ (event.rpc_ok /\ event.confirmations = NoTxOut) =>
               event.outcome = "output_doesnt_exist"
        /\ ~event.rpc_ok => event.outcome = "rpc_error"

C18_Witness ==
    /\ event.kind = "pof_entry"
    /\ C18OtherChecksPass
    /\ event.rpc_ok
    /\ event.confirmations = 1
    /\ event.outcome = "ok"
    /\ Len(pof_call.entries) = 2

C19Finished == pof_call.pc \in {"ok", "err", "panicked"}

C19SameHashvalue ==
    \A i, j \in 1..Len(pof_call.entries) :
        pof_call.entries[i].hashvalue = pof_call.entries[j].hashvalue

\* C19: verify_proof_of_funding returns a hash value only if every funding
\* entry passed the per-entry checks (its hop locktime at least 48 blocks
\* after next_locktime among them) and all entries carry one hash value, which
\* is the value returned; an empty list and differing hash values are errors.
C19_HashOnlyWhenAllEntriesPassAndAgree ==
    /\ pof_call.pc = "ok" =>
           /\ pof_call.result.ok
           /\ pof_call.n >= 1
           /\ Len(pof_call.entries) = pof_call.n
           /\ \A i \in 1..Len(pof_call.entries) :
                  pof_call.entries[i].locktime - pof_call.next_locktime >= 48
           /\ C19SameHashvalue
           /\ pof_call.result.value = pof_call.entries[1].hashvalue
    /\ (C19Finished /\ pof_call.n = 0) => ~pof_call.result.ok
    /\ (C19Finished /\ ~C19SameHashvalue) => ~pof_call.result.ok
    /\ pof_call.result.ok => pof_call.pc = "ok"

\* C20: a ProofOfFunding entry is accepted only if the contract cache holds,
\* for its funding outpoint, the scriptPubKey of its contract redeemscript;
\* an entry whose contract differs from the cached one is rejected.
C20_AcceptedOnlyIfContractIsTheCachedOne ==
    event.kind = "pof_entry" =>
        /\ event.outcome = "ok" =>
               /\ event.entry.outpoint \in DOMAIN prevout_to_contract_map
               /\ prevout_to_contract_map[event.entry.outpoint] = event.entry.spk
        /\ (/\ event.entry.outpoint \in DOMAIN prevout_to_contract_map
            /\ prevout_to_contract_map[event.entry.outpoint] # event.entry.spk) =>
               event.outcome # "ok"

\* C21: verify_and_sign_contract_tx is all-or-nothing: a call that ends with
\* an error returns no signature, whatever it had signed before the failing
\* transaction; a call that succeeds returns one signature for each of the
\* message's n transactions, in the order of the message.
C21_SignaturesAllOrNothing ==
    \A h \in Handlers :
        LET c == vs_call[h]
        IN  /\ c.pc = "err" => c.sigs = << >>
            /\ c.pc = "ok" => c.sigs = [i \in 1..c.n |-> i]
            /\ Len(c.sigs) <= c.n

C21_Witness ==
    \E h, g \in Handlers :
        /\ vs_call[h].pc = "ok" /\ vs_call[h].n = 2
        /\ Len(vs_call[h].sigs) = 2
        /\ vs_call[g].pc = "err" /\ vs_call[g].n = 2 /\ vs_call[g].i = 2
        /\ vs_call[g].sigs = << >>

\* C22: once maker.shutdown is set, the Idle Detector loop, the Contract
\* Observer loop, the pinger loop, the acceptance loop and the fidelity-bond
\* wait loop each read the flag at a later turn and end: eventually none of
\* the five is running.
C22LoopsExited ==
    /\ sup_pc \notin {"fidelity_wait", "fidelity_sleep"}
    /\ pinger_pc \notin {"sleep", "store"}
    /\ accept_pc \notin {"check", "accept", "sleep"}
    /\ ~watchdog_alive.idle /\ ~watchdog_alive.observer

C22_ShutdownEndsEveryLoop ==
    shutdown ~> C22LoopsExited

\* The four threads of a serving Maker have all ended on the flag.
C22_Witness ==
    /\ shutdown
    /\ sup_pc = "serving" /\ accept_pc = "stopped" /\ pinger_pc = "stopped"
    /\ ~watchdog_alive.idle /\ ~watchdog_alive.observer
    /\ Len(spawned_handlers) > 0

\* C23: start_maker_server never returns from or after its acceptance loop
\* without having synced the wallet and then saved it: whenever it has
\* returned after the loop was entered, the wallet operations it completed
\* on the way out are sync followed by save.
C23_NoReturnWithoutSyncAndSave ==
    (sup_pc \in {"returned_ok", "returned_err"}
        /\ accept_pc \in {"stopped", "failed"})
    => exit_log = << "sync", "save" >>

\* C24: the flag follows the pinger and nothing else. A ping's result is
\* whether the node answered; the store after a failed ping makes
\* accepting_clients false, the store after a successful one makes it true,
\* and between two stores it does not change, so after a failed ping it stays
\* false until a ping succeeds. A step that flips the flag leaves the handler
\* threads spawned so far and every connection as they are.
C24_FlagFollowsPingAndSparesHandlers ==
    [][ /\ (pinger_pc = "sleep" /\ pinger_pc' = "store")
               => rpc_ping_success' = node_up
        /\ (pinger_pc = "store" /\ pinger_pc' = "sleep")
               => accepting_clients' = rpc_ping_success
        /\ accepting_clients' # accepting_clients
               => /\ pinger_pc = "store" /\ pinger_pc' = "sleep"
                  /\ spawned_handlers' = spawned_handlers
                  /\ conn' = conn /\ connections' = connections ]_vars

\* A handler was spawned while the flag was true, and a failed ping has since
\* made it false.
C24_Witness ==
    /\ Len(spawned_handlers) > 0
    /\ spawned_handlers[1].accepting_clients
    /\ ~accepting_clients /\ ~rpc_ping_success /\ pinger_pc = "sleep"

C26ClosedAtProofOfFunding ==
    /\ behavior = "CloseAtProofOfFunding"
    /\ event.kind = "message" /\ event.message = "ProofOfFunding"
    /\ event.result = "special"

C26_ClosingMakerIsRecordedBad ==
    C26ClosedAtProofOfFunding ~> (bad_makers = << MakerAddress >>)

C26_Witness ==
    /\ C26ClosedAtProofOfFunding
    /\ event.before.allowed_message = "ProofOfFunding"
    /\ conn[event.ip].status = "closed"
    /\ bad_makers = << MakerAddress >>

\* C27: a handler error of the kind SpecialBehaviour sets maker.shutdown and
\* closes the connection; any other handler error closes that connection,
\* leaves the other connections alone and leaves the flag as it was; a
\* handled message leaves the flag as it was; and a Maker of behaviour Normal
\* never answers with SpecialBehaviour and never has the flag set by a handler.
C27_OnlySpecialBehaviourShutsDown ==
    [][ (conn' # conn /\ event'.kind = "message")
            => /\ event'.result = "special"
                      => /\ shutdown'
                         /\ conn'[event'.ip].status = "closed"
               /\ event'.result = "err"
                      => /\ shutdown' = shutdown
                         /\ conn'[event'.ip].status = "closed"
                         /\ \A q \in Peers \ {event'.ip} : conn'[q] = conn[q]
               /\ event'.result = "ok" => shutdown' = shutdown
               /\ behavior = "Normal"
                      => event'.result # "special" /\ ~shutdown' ]_vars

\* A Maker that closes at HashPreimage has done so: the flag is set.
C27_Witness ==
    /\ behavior = "CloseAtHashPreimage"
    /\ event.kind = "message" /\ event.result = "special"
    /\ conn[event.ip].status = "closed"
    /\ shutdown

\* C28 (as claimed): after a message has failed with a protocol error, the
\* connection is closed and the peer's ConnectionState in the store is the
\* default value.
C28_ErrorClosesAndResetsPeerState ==
    (event.kind = "message" /\ event.result = "err") =>
        /\ conn[event.ip].status = "closed"
        /\ event.ip \in DOMAIN connection_state =>
               connection_state[event.ip].state = DefaultConnectionState

\* C28 (amended): a message that fails with a protocol error closes the
\* connection and discards the handler's ConnectionState with it, and leaves
\* the store, the peer's entry included, exactly as it was.
C28_ErrorClosesAndLeavesStore ==
    [][ (conn' # conn /\ event'.kind = "message" /\ event'.result = "err")
            => /\ conn'[event'.ip] = Ended("closed")
               /\ connection_state' = connection_state ]_vars

\* A message of a peer whose stored state holds swapcoins has failed: the
\* connection is closed and the entry still holds them.
C28_Witness ==
    /\ event.kind = "message" /\ event.result = "err"
    /\ conn[event.ip] = Ended("closed")
    /\ event.ip \in DOMAIN connection_state
    /\ Len(connection_state[event.ip].state.incoming_swapcoins) > 0
    /\ connection_state[event.ip].state = event.before

\* C29: an error the Idle Detector meets while it processes a peer does not
\* stop it: after such a pass the watchdog is still running and
\* maker.shutdown is not set.
C29_WatchdogErrorIsLoggedAndSurvived ==
    (event.kind = "idle_pass" /\ event.result = "err") =>
        /\ watchdog_alive.idle
        /\ ~shutdown

\* The peers of the pass that were past the idle threshold.
C30Idle == {ip \in DOMAIN event.before : IsIdle(event.at, event.before[ip])}

\* The fully signed pairs of a state, as the payload would list them.
C30SignedPairs(st) ==
    {i \in ZipIndices(st) :
        st.outgoing_swapcoins[i].signed /\ st.incoming_swapcoins[i].signed}

\* C30: when the Idle Detector meets an idle peer some of whose swapcoins are
\* not fully signed (and no wallet call or spawn fails), it leaves those
\* swapcoins out, spawns recovery with the fully signed ones, and removes the
\* peer from the store.
C30_UnsignedSwapcoinIsSkipped ==
    (event.kind = "idle_pass" /\ event.failed \in {"none", "swapcoin"}) =>
        \A ip \in C30Idle :
            (C30Idle = {ip}
                /\ C30SignedPairs(event.before[ip].state)
                       # ZipIndices(event.before[ip].state))
            => /\ \E t \in event.spawned :
                      /\ t.ip = ip
                      /\ Len(t.outgoings)
                             = Cardinality(C30SignedPairs(event.before[ip].state))
               /\ ip \notin DOMAIN event.after

C32_NoLockAcrossNodeQuery ==
    \A t \in LockThreads :
        InNodeQuery(t)
        => /\ store_holder # t
           /\ wallet_read_guards[t] = 0
           /\ wallet_write_guard # t

\* C39: no thread asks for the wallet lock while it holds a guard on it, and
\* so no thread waits for a guard that can never be granted.
C39_NoWalletDeadlock ==
    /\ \A t \in LockThreads :
           wallet_waiting[t] # "none"
           => wallet_read_guards[t] = 0 /\ wallet_write_guard # t
    /\ ~WalletDeadlocked

\* Every swapcoin of the state is fully signed.
C33_FullySigned(st) ==
    /\ \A i \in DOMAIN st.outgoing_swapcoins : st.outgoing_swapcoins[i].signed
    /\ \A i \in DOMAIN st.incoming_swapcoins : st.incoming_swapcoins[i].signed

\* The payload the Contract Observer builds from st is the payload outs, ins.
C33_ObserverBuilds(st, outs, ins) ==
    /\ ObserverOutgoings(st) = outs
    /\ ObserverIncomings(st) = ins

C34_Accepted(p) ==
    /\ conn'[p].status = "open"
    /\ conn[p].status \in {"open", "done"}
    /\ Len(conn'[p].accepted) = Len(conn[p].accepted) + 1

\* C34: every accepted message sets the peer's last_seen to the current
\* time, and the peer whose accepted messages are never more than 60 seconds
\* apart is never evicted by the Idle Detector and never has recovery
\* triggered for idleness: no pass spawns a recovery thread for it, changes
\* its entry or removes it, and it is never put on bad_ip.
C34_RegularPeerIsNeverIdle ==
    [][ /\ \A p \in Peers :
               C34_Accepted(p)
               => /\ p \in DOMAIN connection_state'
                  /\ connection_state'[p].last_seen = now
        /\ RegularPeer \notin bad_ip'
        /\ (event'.kind = "idle_pass" /\ RegularPeer \in DOMAIN event'.before)
               => /\ \A th \in event'.spawned : th.ip # RegularPeer
                  /\ RegularPeer \in DOMAIN event'.after
                  /\ event'.after[RegularPeer] = event'.before[RegularPeer] ]_vars

\* A pass has just triggered recovery for the other peer, silent for 61
\* seconds, while the regular peer, which holds swapcoins and spoke last one
\* second ago, after 60 seconds of silence, is still in the store.
C34_Witness ==
    /\ event.kind = "idle_pass" /\ event.at = 61
    /\ \E th \in event.spawned : th.ip # RegularPeer
    /\ RegularPeer \in DOMAIN event.after
    /\ event.after[RegularPeer].last_seen = 60
    /\ Len(event.after[RegularPeer].state.incoming_swapcoins) > 0

\* C35: a watchdog pass removes a peer's entry from the store only if the
\* same pass triggered recovery for that peer; the fresh entry of an IP that
\* an earlier pass evicted stays until it is itself idle or reported.
C35_RemovedOnlyWhenTriggered ==
    event.kind \in {"idle_pass", "observer_pass"} =>
        \A ip \in DOMAIN event.before :
            ip \notin DOMAIN event.after
            => \E th \in event.spawned : th.ip = ip

\* The multisig redeemscripts of the swapcoins in a recovery payload.
C36_Swapcoins(th) ==
    {th.outgoings[i].redeemscript : i \in DOMAIN th.outgoings}
        \cup {th.incomings[i].redeemscript : i \in DOMAIN th.incomings}

\* C36: for the one swap of a peer (the only connection accepted so far), the
\* Idle Detector and the Contract Observer spawn at most one recovery thread
\* in total: no swapcoin is in the payloads of a thread of each.
C36_OneRecoveryPerSwap ==
    connections = 1 =>
        \A i, j \in DOMAIN recovery_threads :
            (recovery_threads[i].by = "idle" /\ recovery_threads[j].by = "observer")
            => C36_Swapcoins(recovery_threads[i])
                   \cap C36_Swapcoins(recovery_threads[j]) = {}

\* C37: verify_proof_of_funding rejects a funding entry whose contract
\* locktime is below the message's next_locktime as too close: the 16-bit
\* difference does not wrap into a value that passes the check against
\* MIN_CONTRACT_REACTION_TIME.
C37_LocktimeBelowNextIsRejected ==
    (/\ event.kind = "pof_entry"
     /\ event.entry.shape # "no_locktime"
     /\ event.next_locktime > event.entry.locktime)
    => event.outcome = "locktime_too_close"

\* The call of handler h has failed after it had put a new entry in the cache.
C38_FailedAfterInsertion(h) ==
    /\ vs_call[h].pc = "err"
    /\ vs_call[h].last_insert.result = "ok"
    /\ vs_call[h].last_insert.had = "none"

\* C38 as claimed: after a failed verify_and_sign_contract_tx the cache is as
\* it was before the call, the entries the call inserted do not remain.
C38_FailedCallLeavesCacheAsBefore ==
    \A h \in Handlers :
        C38_FailedAfterInsertion(h)
        => vs_call[h].last_insert.prevout \notin DOMAIN prevout_to_contract_map

\* C38, amended: a failed verify_and_sign_contract_tx returns no signature
\* and undoes no insertion: the entry it inserted before the failure is
\* still in the cache with the scriptPubKey inserted, and so is every entry
\* the cache ever held.
C38_FailedCallKeepsItsInsertions ==
    \A h \in Handlers :
        vs_call[h].pc = "err"
        => /\ vs_call[h].sigs = << >>
           /\ vs_call[h].last_insert.result = "ok"
              => /\ vs_call[h].last_insert.prevout \in DOMAIN prevout_to_contract_map
                 /\ prevout_to_contract_map[vs_call[h].last_insert.prevout]
                        = vs_call[h].last_insert.spk
           /\ \A e \in cache_log :
                  /\ e.prevout \in DOMAIN prevout_to_contract_map
                  /\ prevout_to_contract_map[e.prevout] = e.spk

\* A request of two transactions failed at its second one, and the entry
\* inserted for its first is in the cache.
C38_Witness ==
    \E h \in Handlers :
        /\ C38_FailedAfterInsertion(h)
        /\ vs_call[h].n = 2 /\ vs_call[h].i = 2
        /\ vs_call[h].tx # NoTx
        /\ vs_call[h].tx.prevout # vs_call[h].last_insert.prevout
        /\ vs_call[h].last_insert.prevout \in DOMAIN prevout_to_contract_map

\* C40: when the flag is set while the supervisor waits for funds in the
\* fidelity-bond loop, so that the proof slot is still empty, the bootstrap
\* ends cleanly: the supervisor does not panic on the empty slot, and no
\* directory Post goes out without a proof.
C40_ShutdownInFidelityWaitEndsCleanly ==
    (shutdown /\ highest_fidelity_proof = NoProof)
    => /\ sup_pc # "panicked"
       /\ event.kind # "post"
====
